---- MODULE Spec2Model ----
(***************************************************************************)
(* A model of the Bulwark request-filtering gateway.                       *)
(*                                                                         *)
(*   Spec       one external-processor stream handled by                   *)
(*              BulwarkProcessor::process (crates/ext-filter/service.rs),  *)
(*              with the plugin instances of crates/wasm-host/plugin.rs.   *)
(*   SpecFair   Spec with weak fairness of each step of the orchestrator   *)
(*              and of the tasks' scheduling; a guest's own steps are not  *)
(*              fair, since a module need not halt.                        *)
(*   SpecState  the remote-state host calls of crates/host/context.rs      *)
(*              (PluginCtx) and of crates/wasm-host/plugin.rs              *)
(*              (RequestContext) against one key-value store.              *)
(*   SpecRate   concurrent PluginCtx::incr_rate_limit calls.               *)
(*   SpecBreaker  two instances calling incr_breaker and check_breaker.     *)
(*   SpecLimit  one instance calling incr_rate_limit and check_rate_limit. *)
(*   SpecFanOut the join, combination and dispatch of a route's results.   *)
(*   SpecContext  the context bag of RequestContext.                       *)
(*   SpecHttp   PluginCtx::send_request and its domain check.              *)
(*   SpecStartup  BulwarkProcessor::new building the router.               *)
(*   SpecArgs   the increments of both hosts with negative arguments.      *)
(*   SpecCheck  increments and checks of both hosts, for the checks.       *)
(*                                                                         *)
(* Decisions are exact rationals: accept, restrict and unknown are integer *)
(* numerators over the common denominator den > 0.                         *)
(***************************************************************************)
EXTENDS Integers, Sequences, FiniteSets, TLC

VARIABLES
    \* ---- the stream (service.rs)
    inbound,             \* messages the proxy has sent and the processor has not read
    outbound,            \* messages sent on `sender`, in order
    pc,                  \* position of the processor in process / the routing task
    http_req,            \* the path of the request built by prepare_request
    nplugins,            \* length of the matched route's plugin list
    task,                \* per plugin: state of the task spawned on the JoinSet
    overran,             \* per plugin: the timeout elapsed while the plugin executed
    ctx,                 \* per plugin: RequestContext fields accept/restrict/unknown, tags
    joined,              \* per plugin: what join_next returned for its task
    decision_components, \* the shared Vec<DecisionComponents>
    combined,            \* the Decision returned by execute_plugins
    combined_tags,       \* the tag set execute_plugins computes (and logs)
    start_result,        \* per plugin: how PluginInstance::start ended
    guest_calls,         \* per plugin: the host functions its module has called
    \* ---- the remote state (context.rs, plugin.rs)
    store,               \* the key-value store: the value of each key that exists
    expiry,              \* the store's expireat of each key that has one
    clock,               \* the service's clock (Utc::now), in seconds
    store_clock,         \* the store's clock, which expires keys; never ahead of clock
    pool,                \* RedisCtx.pool / RequestContext.redis_info is Some
    permissions,         \* the plugin's declared state prefixes
    inst,                \* per caller: the plugin instance is alive, trapped or panicked
    pending,             \* per caller: the scripted call in flight, with its timestamp
    last_call,           \* the host call that completed last, with its outcome
    rl_prev,             \* per key: what the last incr_rate_limit returned, and the
                         \* attempts returned by the one before it
    bk_prev,             \* per key: what the last incr_breaker returned
    \* ---- the other host functions (plugin.rs, context.rs)
    context,             \* per plugin instance: the map behind its context bag
    http_domains,        \* the plugin's allowed http domains (permissions.http)
    http_sent,           \* the outbound requests handed to the sender, in order
    \* ---- startup (service.rs)
    config,              \* the Config given to BulwarkProcessor::new
    router,              \* the matchit Router that new builds: pattern -> plugin list
    new_result           \* what BulwarkProcessor::new returned

streamVars == <<inbound, outbound, pc, http_req, nplugins, task, overran, ctx, joined,
                decision_components, combined, combined_tags, start_result, guest_calls>>
stateVars == <<store, expiry, clock, store_clock, pool, permissions, inst, pending, last_call, rl_prev,
              bk_prev>>
startVars == <<config, router, new_result>>
hostVars == <<context, http_domains, http_sent, startVars>>
vars == <<streamVars, stateVars, hostVars>>

(***************************************************************************)
(* Bounds of the model.                                                    *)
(***************************************************************************)
MaxPlugins == 2

(***************************************************************************)
(* Decision algebra (bulwark_wasm_sdk::Decision).                          *)
(***************************************************************************)
Dec(a, r, u, d) == [accept |-> a, restrict |-> r, unknown |-> u, den |-> d]

Ignorance == Dec(0, 0, 1, 1)

\* Equality of two decisions as rationals.
DecEq(p, q) ==
    /\ p.accept * q.den = q.accept * p.den
    /\ p.restrict * q.den = q.restrict * p.den
    /\ p.unknown * q.den = q.unknown * p.den

\* Dempster-Shafer conjunctive fusion of two decisions.
PairwiseCombine(p, q) ==
    LET k == p.accept * q.restrict + p.restrict * q.accept
        dd == p.den * q.den
    IN  IF k >= dd
        THEN Ignorance
        ELSE Dec(p.accept * q.accept + p.accept * q.unknown + p.unknown * q.accept,
                 p.restrict * q.restrict + p.restrict * q.unknown + p.unknown * q.restrict,
                 p.unknown * q.unknown,
                 dd - k)

RECURSIVE CombineFrom(_, _)
CombineFrom(acc, ds) ==
    IF ds = <<>> THEN acc ELSE CombineFrom(PairwiseCombine(acc, Head(ds)), Tail(ds))

\* Decision::combine: the fold over the sequence, starting from (0,0,1).
Combine(ds) == CombineFrom(Ignorance, ds)

\* Decision::accepted(threshold), threshold = tnum / tden.
accepted(d, tnum, tden) == d.restrict * tden < tnum * d.den

Abs(x) == IF x < 0 THEN -x ELSE x

\* Every component in [0,1] and the sum within 1e-6 of 1.
WellFormed(d) ==
    /\ 0 <= d.accept /\ d.accept <= d.den
    /\ 0 <= d.restrict /\ d.restrict <= d.den
    /\ 0 <= d.unknown /\ d.unknown <= d.den
    /\ Abs(d.accept + d.restrict + d.unknown - d.den) * 1000000 <= d.den

\* serialize_decision_sfv: each mass as a decimal with three fractional digits.
Milli(x, d) == (2000 * x + d) \div (2 * d)
serialize_decision_sfv(d) ==
    [accept |-> Milli(d.accept, d.den),
     restrict |-> Milli(d.restrict, d.den),
     unknown |-> Milli(d.unknown, d.den)]

\* The decisions a plugin may pass to set_decision: well-formed ones (the
\* two of the fusion scenario, and a restrict mass of exactly one half) and
\* a malformed one (accept = 2, which is above 1 and makes the sum 2).
DecisionInputs ==
    { Dec(7, 1, 2, 10), Dec(1, 6, 3, 10), Dec(0, 5, 5, 10), Dec(20, 0, 0, 10) }

\* The lists a plugin may pass to set_tags: one names a tag twice, the other
\* holds a tag with a comma and an empty tag.
TagLists == { <<"evil", "bot", "evil">>, <<"a,b", "">> }

Range(s) == { s[i] : i \in DOMAIN s }

(***************************************************************************)
(* The stream: messages of the external-processor protocol.                *)
(***************************************************************************)
PseudoHeaders == {":authority", ":scheme", ":method", ":path"}

\* An inbound RequestHeaders message: the pseudo-headers it carries, whether
\* its :method parses as an http::Method, and its :path.
RequestHeaders(present, method_ok, path) ==
    [type |-> "RequestHeaders", present |-> present, method_ok |-> method_ok,
     path |-> path]
ResponseHeaders == [type |-> "ResponseHeaders"]
RequestBody == [type |-> "RequestBody"]

Paths == {"/", "/example", "/empty", "/missing"}

FirstMessages ==
    { RequestHeaders(PseudoHeaders, TRUE, p) : p \in Paths \ {"/example"} }
    \cup { RequestHeaders(PseudoHeaders \ {h}, TRUE, "/") : h \in PseudoHeaders }
    \cup { RequestHeaders(PseudoHeaders, FALSE, "/"), ResponseHeaders, RequestBody }

\* What the proxy sends on the stream: nothing, one message, or a
\* RequestHeaders message and what follows it.
InboundStreams ==
    { <<>> }
    \cup { <<m>> : m \in FirstMessages }
    \cup { <<RequestHeaders(PseudoHeaders, TRUE, "/"), n>> :
              n \in {ResponseHeaders, RequestBody, RequestHeaders(PseudoHeaders, TRUE, "/")} }
    \cup { <<RequestBody, RequestHeaders(PseudoHeaders, TRUE, "/"), ResponseHeaders>>,
             <<RequestHeaders(PseudoHeaders, TRUE, "/example"), ResponseHeaders>>,
             <<RequestHeaders(PseudoHeaders \ {":path"}, TRUE, "/"), ResponseHeaders>> }

\* The router built by BulwarkProcessor::new: route pattern -> length of its
\* plugin list. A path outside its domain is a match error.
Router == [p \in {"/", "/example", "/empty"} |->
             CASE p = "/" -> 1
               [] p = "/example" -> MaxPlugins
               [] OTHER -> 0]

PluginIds == 1 .. MaxPlugins

\* RequestContext::new with accept 1.0 and unknown 0.0.
NewRequestContextAccepting == [decision |-> Dec(1, 0, 0, 1), tags |-> <<>>]

\* RequestContext::new: accept 0.0, restrict 0.0, unknown 1.0, no tags.
NewRequestContext == [decision |-> Ignorance, tags |-> <<>>]

(***************************************************************************)
(* Outbound messages.                                                      *)
(***************************************************************************)
\* serialize_tags_sfv: the list of tags, as given.
serialize_tags_sfv(tags) == tags

\* allow_request: a RequestHeaders response whose header mutation sets
\* Bulwark-Decision and, when `tags` is not empty, Bulwark-Tags.
AllowMessage(decision, tags) ==
    [type |-> "RequestHeaders",
     set_headers |->
        <<[key |-> "Bulwark-Decision", value |-> serialize_decision_sfv(decision)]>>
        \o (IF tags # <<>>
            THEN <<[key |-> "Bulwark-Tags", value |-> serialize_tags_sfv(tags)]>>
            ELSE <<>>)]

\* block_request: an ImmediateResponse.
BlockMessage(decision, tags) ==
    [type |-> "ImmediateResponse", status |-> 403, details |-> "blocked by bulwark",
     body |-> "Bulwark says no.", headers |-> "None", grpc_status |-> "None"]

\* The response handle_decision sends after a ResponseHeaders message.
ResponseHeadersMessage ==
    [type |-> "ResponseHeaders",
     set_headers |-> <<[key |-> "x-external-processor", value |-> "Bulwark"]>>]

\* handle_decision with its two branches exchanged.
DispatchMessageSwapped(decision, tags) ==
    IF accepted(decision, 1, 2)
    THEN BlockMessage(decision, tags)
    ELSE AllowMessage(decision, tags)

\* handle_decision's choice between allow_request and block_request.
DispatchMessage(decision, tags) ==
    IF accepted(decision, 1, 2)
    THEN AllowMessage(decision, tags)
    ELSE BlockMessage(decision, tags)

\* tokio::time::timeout polled: the wrapped future is polled first and, when
\* it is ready, its output is returned whatever the deadline; the deadline is
\* looked at only when the wrapped future is pending.
TimeoutPoll(inner, deadline_passed) ==
    CASE inner = "ready" -> "Ok"
      [] inner = "pending" /\ deadline_passed -> "Elapsed"
      [] OTHER -> "Pending"

(***************************************************************************)
(* The remote state, left idle by the stream's specification.              *)
(***************************************************************************)
StateIdle ==
    /\ store = <<>> /\ expiry = <<>> /\ clock = 0 /\ store_clock = 0 /\ pool = FALSE
    /\ permissions = {} /\ inst = <<>> /\ pending = <<>>
    /\ last_call = [op |-> "none"] /\ rl_prev = <<>> /\ bk_prev = <<>>

\* The context bags and the outbound requests, left idle likewise.
\* BulwarkProcessor::new, not run.
StartIdle == config = [resources |-> [t |-> "none"]] /\ router = <<>> /\ new_result = "none"

HostIdle == context = <<>> /\ http_domains = {} /\ http_sent = <<>> /\ StartIdle

(***************************************************************************)
(* BulwarkProcessor::process and the routing task it spawns.               *)
(***************************************************************************)
Init ==
    /\ inbound \in InboundStreams
    /\ outbound = <<>>
    /\ pc = "prepare_request"
    /\ http_req = "none"
    /\ nplugins = 0
    /\ task = [i \in PluginIds |-> "unspawned"]
    /\ overran = [i \in PluginIds |-> FALSE]
    /\ ctx = [i \in PluginIds |-> NewRequestContext]
    /\ joined = [i \in PluginIds |-> "none"]
    /\ decision_components = <<>>
    /\ combined = Ignorance
    /\ combined_tags = {}
    /\ start_result = [i \in PluginIds |-> "none"]
    /\ guest_calls = [i \in PluginIds |-> {}]
    /\ StateIdle
    /\ HostIdle

\* get_request_headers: one message is read from the stream; it is returned
\* only if it is a RequestHeaders message.
get_request_headers(stream) ==
    IF stream # <<>> /\ Head(stream).type = "RequestHeaders"
    THEN Head(stream)
    ELSE [type |-> "None"]

\* get_response_headers: one message is read from the stream; it is returned
\* only if it is a ResponseHeaders message.
get_response_headers(stream) ==
    IF stream # <<>> /\ Head(stream).type = "ResponseHeaders"
    THEN Head(stream)
    ELSE [type |-> "None"]

\* The stream after one call of stream.message().
AfterMessage(stream) == IF stream = <<>> THEN <<>> ELSE Tail(stream)

\* prepare_request without its four ok_or_else tests.
RequestOkMethodOnly(header_msg) ==
    /\ header_msg.type = "RequestHeaders"
    /\ header_msg.method_ok

\* prepare_request's result for the message read: Ok when the four
\* pseudo-headers are there and the method parses.
RequestOk(header_msg) ==
    /\ header_msg.type = "RequestHeaders"
    /\ PseudoHeaders \subseteq header_msg.present
    /\ header_msg.method_ok

\* process, up to the spawn of the routing task: on a prepare_request error
\* the response stream is the empty stream.
PrepareRequest ==
    /\ pc = "prepare_request"
    /\ LET header_msg == get_request_headers(inbound)
       IN  /\ inbound' = AfterMessage(inbound)
           /\ IF RequestOk(header_msg)
              THEN /\ http_req' = header_msg.path
                   /\ pc' = "routing"
              ELSE /\ http_req' = "none"
                   /\ pc' = "closed"
    /\ UNCHANGED <<outbound, nplugins, task, overran, ctx, joined,
                   decision_components, combined, combined_tags, stateVars, hostVars,
                   start_result, guest_calls>>

\* The routing task: router.at(path); a match error panics the task.
Route ==
    /\ pc = "routing"
    /\ IF http_req \in DOMAIN Router
       THEN /\ nplugins' = Router[http_req]
            /\ pc' = "spawn"
       ELSE /\ nplugins' = 0
            /\ pc' = "panicked"
    /\ UNCHANGED <<inbound, outbound, http_req, task, overran, ctx, joined,
                   decision_components, combined, combined_tags, stateVars, hostVars,
                   start_result, guest_calls>>

NextToSpawn == CHOOSE i \in 1 .. (MaxPlugins + 1) :
                  /\ \A j \in 1 .. (i - 1) : task[j] # "unspawned"
                  /\ i \in PluginIds => task[i] = "unspawned"

\* execute_plugins, one turn of the for loop: PluginInstance::new, its result
\* unwrapped (an instantiation error panics the routing task), and the task
\* spawned on the JoinSet.
SpawnPlugin ==
    /\ pc = "spawn"
    /\ NextToSpawn <= nplugins
    /\ \E instantiated \in BOOLEAN :
          IF instantiated
          THEN /\ task' = [task EXCEPT ![NextToSpawn] = "spawned"]
               /\ ctx' = [ctx EXCEPT ![NextToSpawn] = NewRequestContext]
               /\ pc' = pc
          ELSE /\ pc' = "panicked"
               /\ UNCHANGED <<task, ctx>>
    /\ UNCHANGED <<inbound, outbound, http_req, nplugins, overran, joined,
                   decision_components, combined, combined_tags, stateVars, hostVars,
                   start_result, guest_calls>>

\* execute_plugins: the loop is over; yield_now hands execution to the tasks.
YieldNow ==
    /\ pc = "spawn"
    /\ NextToSpawn > nplugins
    /\ pc' = "join"
    /\ UNCHANGED <<inbound, outbound, http_req, nplugins, task, overran, ctx,
                   joined, decision_components, combined, combined_tags, stateVars, hostVars,
                   start_result, guest_calls>>

(***************************************************************************)
(* A plugin task: timeout(timeout_duration, async { start(); push }).      *)
(* A task runs on a worker thread of its own from the moment it is         *)
(* spawned.                                                                *)
(***************************************************************************)
TasksRun == pc \in {"spawn", "join"}

\* PluginInstance::start, first line: get_func("_start") unwrapped. A module
\* that exports no _start panics the task.
TaskPoll(i) ==
    /\ TasksRun
    /\ task[i] = "spawned"
    /\ \E has_start \in BOOLEAN :
          /\ task' = [task EXCEPT ![i] = IF has_start THEN "running" ELSE "panicked"]
          /\ start_result' = [start_result EXCEPT ![i] = IF has_start THEN @ ELSE "panic"]
    /\ UNCHANGED <<inbound, outbound, pc, http_req, nplugins, overran, ctx, joined,
                   decision_components, combined, combined_tags, stateVars, hostVars,
                   guest_calls>>

\* RequestContext::set_decision: the three masses are stored as given.
set_decision(c, d) == [c EXCEPT !.decision = d]

\* RequestContext::set_tags: the list is stored as given.
set_tags(c, tags) == [c EXCEPT !.tags = tags]

GuestSetDecision(i) ==
    /\ TasksRun
    /\ task[i] = "running"
    /\ \E d \in DecisionInputs : ctx' = [ctx EXCEPT ![i] = set_decision(ctx[i], d)]
    /\ guest_calls' = [guest_calls EXCEPT ![i] = @ \cup {"set_decision"}]
    /\ UNCHANGED <<inbound, outbound, pc, http_req, nplugins, task, overran, joined,
                   decision_components, combined, combined_tags, stateVars, hostVars,
                   start_result>>

GuestSetTags(i) ==
    /\ TasksRun
    /\ task[i] = "running"
    /\ \E tags \in TagLists : ctx' = [ctx EXCEPT ![i] = set_tags(ctx[i], tags)]
    /\ guest_calls' = [guest_calls EXCEPT ![i] = @ \cup {"set_tags"}]
    /\ UNCHANGED <<inbound, outbound, pc, http_req, nplugins, task, overran, joined,
                   decision_components, combined, combined_tags, stateVars, hostVars,
                   start_result>>

\* A remote-state host call of RequestContext made by a plugin of the
\* stream: its instance was built with no redis_info, and the call unwraps
\* it; the panic unwinds the task, which drops the instance.
GuestRemoteState(i) ==
    /\ TasksRun
    /\ task[i] = "running"
    /\ ~pool
    /\ task' = [task EXCEPT ![i] = "panicked"]
    /\ ctx' = [ctx EXCEPT ![i] = NewRequestContext]
    /\ start_result' = [start_result EXCEPT ![i] = "panic"]
    /\ UNCHANGED <<inbound, outbound, pc, http_req, nplugins, overran, joined,
                   decision_components, combined, combined_tags, stateVars, hostVars,
                   guest_calls>>

\* The route's timeout elapses while the plugin is still executing.
PluginOverrun(i) ==
    /\ TasksRun
    /\ task[i] = "running"
    /\ ~overran[i]
    /\ overran' = [overran EXCEPT ![i] = TRUE]
    /\ UNCHANGED <<inbound, outbound, pc, http_req, nplugins, task, ctx, joined,
                   decision_components, combined, combined_tags, stateVars, hostVars,
                   start_result, guest_calls>>

\* One poll of the async block given to timeout: it calls start and pushes
\* with no await in between, so it is ready when the poll returns.
PluginFuturePoll == "ready"

\* PluginInstance::start returns Ok: the DecisionComponents are read from the
\* context and pushed on the shared vector under its lock.
PluginReturn(i) ==
    /\ TasksRun
    /\ task[i] = "running"
    /\ LET out == TimeoutPoll(PluginFuturePoll, overran[i])
           decision_component == [decision |-> ctx[i].decision, tags |-> ctx[i].tags]
       IN  IF out = "Ok"
           THEN /\ decision_components' = Append(decision_components, decision_component)
                /\ task' = [task EXCEPT ![i] = "done"]
           ELSE /\ decision_components' = decision_components
                /\ task' = [task EXCEPT ![i] = "elapsed"]
    /\ start_result' = [start_result EXCEPT ![i] = "Ok"]
    /\ UNCHANGED <<inbound, outbound, pc, http_req, nplugins, overran, ctx, joined,
                   combined, combined_tags, stateVars, hostVars, guest_calls>>

\* The entry point traps: start returns Err, which the task unwraps; the
\* panic drops the instance.
PluginTrap(i) ==
    /\ TasksRun
    /\ task[i] = "running"
    /\ task' = [task EXCEPT ![i] = "panicked"]
    /\ ctx' = [ctx EXCEPT ![i] = NewRequestContext]
    /\ start_result' = [start_result EXCEPT ![i] = "Err(PluginExecutionError)"]
    /\ UNCHANGED <<inbound, outbound, pc, http_req, nplugins, overran, joined,
                   decision_components, combined, combined_tags, stateVars, hostVars,
                   guest_calls>>

\* The entry point enters a loop it never leaves: no fuel, epoch or other
\* interruption is configured on the engine. (The plugins explored loop
\* before their first host call.)
PluginHang(i) ==
    /\ TasksRun
    /\ task[i] = "running"
    /\ ctx[i] = NewRequestContext
    /\ ~overran[i]
    /\ task' = [task EXCEPT ![i] = "hung"]
    /\ UNCHANGED <<inbound, outbound, pc, http_req, nplugins, overran, ctx, joined,
                   decision_components, combined, combined_tags, stateVars, hostVars,
                   start_result, guest_calls>>

\* A join_next that also yields a task which is still executing.
JoinResultEarly(t) ==
    CASE t \in {"done", "running"} -> "Ok(Ok)"
      [] t = "elapsed" -> "Ok(Err(Elapsed))"
      [] t = "panicked" -> "Err(JoinError)"
      [] OTHER -> "none"

\* What join_next yields for an ended task.
JoinResult(t) ==
    CASE t = "done" -> "Ok(Ok)"
      [] t = "elapsed" -> "Ok(Err(Elapsed))"
      [] t = "panicked" -> "Err(JoinError)"
      [] OTHER -> "none"

\* execute_plugins, one turn of the join_next loop.
JoinNext(i) ==
    /\ pc = "join"
    /\ joined[i] = "none"
    /\ JoinResult(task[i]) # "none"
    /\ joined' = [joined EXCEPT ![i] = JoinResult(task[i])]
    /\ UNCHANGED <<inbound, outbound, pc, http_req, nplugins, task, overran, ctx,
                   decision_components, combined, combined_tags, stateVars, hostVars,
                   start_result, guest_calls>>

\* The collected vector cut down to the decision pushed first.
decision_vec_first(components) ==
    [n \in DOMAIN components \cap {1} |-> components[n].decision]

\* decision_components.iter().map(|dc| dc.decision).collect()
decision_vec(components) == [n \in DOMAIN components |-> components[n].decision]

\* execute_plugins after the join loop: the JoinSet is empty, the decisions
\* are combined and the tags collected into a set.
CombineDecisions ==
    /\ pc = "join"
    /\ \A i \in 1 .. nplugins : joined[i] # "none"
    /\ combined' = Combine(decision_vec(decision_components))
    /\ combined_tags' = UNION { Range(decision_components[n].tags) :
                                  n \in DOMAIN decision_components }
    /\ pc' = "handle_decision"
    /\ UNCHANGED <<inbound, outbound, http_req, nplugins, task, overran, ctx, joined,
                   decision_components, stateVars, hostVars,
                   start_result, guest_calls>>

\* The tags process hands to handle_decision.
HandleDecisionTags == <<>>

\* handle_decision without the return that follows block_request.
HandleDecisionNoReturn ==
    /\ pc = "handle_decision"
    /\ outbound' = Append(outbound, DispatchMessage(combined, HandleDecisionTags))
    /\ pc' = "await_response"
    /\ UNCHANGED <<inbound, http_req, nplugins, task, overran, ctx, joined,
                   decision_components, combined, combined_tags, stateVars, hostVars,
                   start_result, guest_calls>>

\* handle_decision up to its read of the stream.
HandleDecision ==
    /\ pc = "handle_decision"
    /\ outbound' = Append(outbound, DispatchMessage(combined, HandleDecisionTags))
    /\ pc' = IF accepted(combined, 1, 2) THEN "await_response" ELSE "done"
    /\ UNCHANGED <<inbound, http_req, nplugins, task, overran, ctx, joined,
                   decision_components, combined, combined_tags, stateVars, hostVars,
                   start_result, guest_calls>>

\* handle_decision on the allow path: one more message is read and, if it is
\* a ResponseHeaders message, answered.
AwaitResponseHeaders ==
    /\ pc = "await_response"
    /\ inbound' = AfterMessage(inbound)
    /\ outbound' = IF get_response_headers(inbound).type = "ResponseHeaders"
                   THEN Append(outbound, ResponseHeadersMessage)
                   ELSE outbound
    /\ pc' = "done"
    /\ UNCHANGED <<http_req, nplugins, task, overran, ctx, joined,
                   decision_components, combined, combined_tags, stateVars, hostVars,
                   start_result, guest_calls>>

Next ==
    \/ PrepareRequest
    \/ Route
    \/ SpawnPlugin
    \/ YieldNow
    \/ \E i \in PluginIds : TaskPoll(i)
    \/ \E i \in PluginIds : GuestSetDecision(i)
    \/ \E i \in PluginIds : GuestSetTags(i)
    \/ \E i \in PluginIds : GuestRemoteState(i)
    \/ \E i \in PluginIds : PluginOverrun(i)
    \/ \E i \in PluginIds : PluginReturn(i)
    \/ \E i \in PluginIds : PluginTrap(i)
    \/ \E i \in PluginIds : PluginHang(i)
    \/ \E i \in PluginIds : JoinNext(i)
    \/ CombineDecisions
    \/ HandleDecision
    \/ AwaitResponseHeaders

Spec == Init /\ [][Next]_vars

\* The scheduler runs the routing task and polls every spawned task; what
\* the guest code of a plugin does, and whether it ever returns, is up to
\* the plugin.
SpecFair ==
    /\ Spec
    /\ WF_vars(PrepareRequest) /\ WF_vars(Route) /\ WF_vars(SpawnPlugin)
    /\ WF_vars(YieldNow) /\ WF_vars(CombineDecisions) /\ WF_vars(HandleDecision)
    /\ WF_vars(AwaitResponseHeaders)
    /\ \A i \in PluginIds : WF_vars(TaskPoll(i)) /\ WF_vars(JoinNext(i))

(***************************************************************************)
(* SpecFanOut: execute_plugins from its join loop on, for a route of       *)
(* MaxResults plugins each of which has written its decision and is about  *)
(* to return from start; the tasks return, and push, in any order.         *)
(***************************************************************************)
MaxResults == 3

FanOutIds == 1 .. MaxResults

\* The decisions the plugins of the route have written: certain accept,
\* certain restrict, half of the mass on accept or on restrict, and a
\* malformed one whose masses are all 1.
FanOutDecisions ==
    { Dec(1, 0, 0, 1), Dec(0, 1, 0, 1), Dec(1, 0, 1, 2), Dec(0, 1, 1, 2), Dec(1, 1, 1, 1) }

InitFanOut ==
    /\ inbound \in { <<>>, <<ResponseHeaders>> }
    /\ outbound = <<>>
    /\ pc = "join"
    /\ http_req = "/fanout"
    /\ nplugins = MaxResults
    /\ task = [i \in FanOutIds |-> "running"]
    /\ overran = [i \in FanOutIds |-> FALSE]
    /\ ctx \in [FanOutIds -> { set_decision(NewRequestContext, d) : d \in FanOutDecisions }]
    /\ joined = [i \in FanOutIds |-> "none"]
    /\ decision_components = <<>>
    /\ combined = Ignorance
    /\ combined_tags = {}
    /\ start_result = [i \in FanOutIds |-> "none"]
    /\ guest_calls = [i \in FanOutIds |-> {"set_decision"}]
    /\ StateIdle
    /\ HostIdle

NextFanOut ==
    \/ \E i \in FanOutIds : PluginReturn(i)
    \/ \E i \in FanOutIds : JoinNext(i)
    \/ CombineDecisions
    \/ HandleDecision
    \/ AwaitResponseHeaders

SpecFanOut == InitFanOut /\ [][NextFanOut]_vars

(***************************************************************************)
(* Properties of the stream.                                               *)
(***************************************************************************)
\* The routing task has called handle_decision and the dispatch was sent.
Dispatched == pc \in {"await_response", "done"}

\* execute_plugins has returned the combined decision.
Combined == pc \in {"handle_decision", "await_response", "done"}

IsDispatch(m) == m.type \in {"RequestHeaders", "ImmediateResponse"}

HasHeader(m, key) == \E n \in DOMAIN m.set_headers : m.set_headers[n].key = key

HeaderValue(m, key) ==
    m.set_headers[CHOOSE n \in DOMAIN m.set_headers : m.set_headers[n].key = key].value

\* The plugins of the matched route.
Routed == 1 .. nplugins

\* The orderings of the plugins of the matched route.
Orderings == { f \in [Routed -> Routed] : \A i, j \in Routed : f[i] = f[j] => i = j }

\* C1: for a matched request, once the decisions are combined exactly one
\* dispatch message is emitted: a RequestHeaders mutation if and only if the
\* combined restrict mass is strictly below 0.5, otherwise an
\* ImmediateResponse with status 403 and body 'Bulwark says no.'; nothing is
\* emitted before the combination.
C1_OneDispatchByRestrictMass ==
    /\ ~Dispatched => outbound = <<>>
    /\ Dispatched =>
          /\ Cardinality({ n \in DOMAIN outbound : IsDispatch(outbound[n]) }) = 1
          /\ IsDispatch(outbound[1])
          /\ (outbound[1].type = "RequestHeaders") <=> (2 * combined.restrict < combined.den)
          /\ outbound[1].type = "ImmediateResponse" =>
                outbound[1].status = 403 /\ outbound[1].body = "Bulwark says no."

\* C1's case: a combined restrict mass of exactly one half was dispatched as
\* a block by a route of several plugins.
C1_Witness ==
    /\ pc = "done"
    /\ nplugins = MaxPlugins
    /\ Len(decision_components) = MaxPlugins
    /\ 2 * combined.restrict = combined.den
    /\ outbound = <<BlockMessage(combined, <<>>)>>

\* A task failed: its plugin ran beyond the timeout, or the task panicked (a
\* fault in the sandbox, a host call that failed).
Failed(i) == overran[i] \/ task[i] = "panicked"

\* C2: in the fan-out the combined decision is the combination of the
\* decision of every task that did not fail and of (0,0,1) for every task
\* that failed (timeout, fault, failed host call), and the tags are those of
\* the tasks that did not fail.
C2_FailedTaskIsIgnorance ==
    (Combined /\ nplugins >= 2) =>
        /\ \E f \in Orderings :
              DecEq(combined,
                    Combine([n \in Routed |->
                               IF Failed(f[n]) THEN Ignorance ELSE ctx[f[n]].decision]))
        /\ combined_tags = UNION { Range(ctx[i].tags) : i \in { j \in Routed : ~Failed(j) } }

\* C3: a plugin that runs beyond the timeout contributes (0,0,1) and no
\* tags, whatever it writes: a route all of whose plugins overran the timeout
\* is combined to (0,0,1) with no tags, and allowed.
C3_OverrunContributesNothing ==
    (Combined /\ nplugins >= 1 /\ \A i \in Routed : overran[i]) =>
        /\ DecEq(combined, Ignorance)
        /\ combined_tags = {}
        /\ Dispatched => outbound[1].type = "RequestHeaders"

\* C4: once every plugin task of a matched request is spawned, the request
\* is eventually dispatched, whatever the plugins do.
C4_EventuallyDispatched == (pc = "join") ~> Dispatched

\* The tags written by the plugins whose task completed.
CompletedTags == UNION { Range(ctx[i].tags) : i \in { j \in Routed : task[j] = "done" } }

\* C7: on the allow path the RequestHeaders mutation carries Bulwark-Tags,
\* holding the union of the tags of the completed plugins, exactly when that
\* union is not empty.
C7_TagsHeaderCarriesUnion ==
    (Dispatched /\ outbound[1].type = "RequestHeaders") =>
        /\ HasHeader(outbound[1], "Bulwark-Tags") <=> CompletedTags # {}
        /\ HasHeader(outbound[1], "Bulwark-Tags") =>
              Range(HeaderValue(outbound[1], "Bulwark-Tags")) = CompletedTags

\* C8: a set_decision with a malformed triple is rejected and leaves the
\* accumulator as it was: no step installs a malformed decision.
C8_MalformedDecisionRejected ==
    [][\A i \in PluginIds : ~WellFormed(ctx[i].decision') => ctx[i]' = ctx[i]]_vars

\* C9: every decision returned by start and every combined decision has its
\* components in [0,1] and a sum within 1e-6 of 1.
C9_DecisionsWellFormed ==
    /\ \A n \in DOMAIN decision_components : WellFormed(decision_components[n].decision)
    /\ Combined => WellFormed(combined)

\* The kinds of the messages sent to the proxy, in order.
OutboundTypes == [n \in DOMAIN outbound |-> outbound[n].type]

\* C19: the messages sent on a stream are none, one ImmediateResponse, one
\* RequestHeaders mutation, or a RequestHeaders mutation followed by one
\* ResponseHeaders mutation that sets x-external-processor to Bulwark; once
\* an ImmediateResponse is sent nothing more is sent and nothing more is
\* read from the stream.
C19_OutboundSequence ==
    /\ [](/\ OutboundTypes \in { <<>>, <<"ImmediateResponse">>, <<"RequestHeaders">>,
                                 <<"RequestHeaders", "ResponseHeaders">> }
          /\ Len(outbound) = 2 =>
                /\ outbound[2] = ResponseHeadersMessage
                /\ accepted(combined, 1, 2))
    /\ [][OutboundTypes = <<"ImmediateResponse">> =>
              outbound' = outbound /\ inbound' = inbound]_vars

\* C19's case: a request was allowed, the proxy then sent ResponseHeaders
\* and the ResponseHeaders mutation was sent after the RequestHeaders one.
C19_Witness ==
    /\ pc = "done"
    /\ OutboundTypes = <<"RequestHeaders", "ResponseHeaders">>
    /\ HeaderValue(outbound[2], "x-external-processor") = "Bulwark"

\* C20: when the path of the request matches no route, the routing task
\* sends nothing to the proxy, instantiates no plugin and ends without a
\* panic.
C20_NoRouteClosesCleanly ==
    (http_req # "none" /\ http_req \notin DOMAIN Router /\ pc # "routing") =>
        /\ outbound = <<>>
        /\ \A i \in PluginIds : task[i] = "unspawned"
        /\ pc # "panicked"

\* No plugin of the stream was instantiated or run.
NoPluginRan ==
    /\ nplugins = 0
    /\ decision_components = <<>>
    /\ \A i \in PluginIds : task[i] = "unspawned" /\ start_result[i] = "none"

\* The message at the head of the stream is a RequestHeaders message that
\* lacks one of the four pseudo-headers.
LacksPseudoHeader ==
    /\ inbound # <<>>
    /\ Head(inbound).type = "RequestHeaders"
    /\ ~(PseudoHeaders \subseteq Head(inbound).present)

\* C21: when the request-headers message lacks one of :method, :path,
\* :scheme and :authority, the stream is ended: no response is sent, the
\* router is never asked and no plugin is instantiated or run.
C21_MissingPseudoHeaderEndsStream ==
    /\ [][(pc = "prepare_request" /\ LacksPseudoHeader) =>
              (pc' = "closed" /\ http_req' = "none" /\ outbound' = <<>>)]_vars
    /\ [](pc = "closed" => (outbound = <<>> /\ http_req = "none" /\ NoPluginRan))
    /\ [][pc = "closed" => pc' = "closed"]_vars

\* C21's case: the stream was ended on a RequestHeaders message without
\* :path, with the proxy's next message left unread.
C21_Witness ==
    /\ pc = "closed"
    /\ inbound = <<ResponseHeaders>>
    /\ outbound = <<>>
    /\ NoPluginRan

\* The proxy has sent a message of another kind ahead of a RequestHeaders
\* message.
RequestHeadersPreceded ==
    /\ inbound # <<>>
    /\ Head(inbound).type # "RequestHeaders"
    /\ \E n \in DOMAIN inbound : inbound[n].type = "RequestHeaders"

\* C22: while the orchestrator awaits the request headers, an inbound
\* message of another kind that precedes the RequestHeaders message is
\* skipped and the next one is read; the request that is routed is built
\* from the first RequestHeaders message.
C22_SkipsUntilRequestHeaders ==
    /\ [][(pc = "prepare_request" /\ RequestHeadersPreceded) =>
              (pc' = "prepare_request" /\ inbound' = Tail(inbound) /\ outbound' = outbound)]_vars
    /\ [][(pc = "prepare_request" /\ pc' = "routing") =>
              (Head(inbound).type = "RequestHeaders" /\ http_req' = Head(inbound).path)]_vars

\* C23: a plugin of the matched route that cannot be instantiated does not
\* abort the orchestrator: the routing task of a matched request goes on to
\* spawn the other plugins and is never ended by a panic.
C23_InstantiationFailureNotFatal ==
    /\ [][(pc = "spawn" /\ NextToSpawn <= nplugins) => pc' = "spawn"]_vars
    /\ [](http_req \in DOMAIN Router => pc # "panicked")

\* C24: PluginInstance::start never aborts its caller: it returns Ok, or
\* it returns a PluginExecutionError for whatever fault arose while the
\* module executed, a missing _start entry point included.
C24_StartNeverAborts ==
    \A i \in PluginIds :
        /\ start_result[i] \in {"none", "Ok", "Err(PluginExecutionError)"}
        /\ task[i] = "panicked" => start_result[i] = "Err(PluginExecutionError)"

\* The module of plugin i has called neither set_decision nor set_tags.
Silent(i) == guest_calls[i] \cap {"set_decision", "set_tags"} = {}

\* C25: when the module of a plugin instance calls neither set_decision nor
\* set_tags, start returns the decision (0,0,1) and an empty tag list.
C25_SilentPluginReturnsIgnorance ==
    [][\A i \in PluginIds :
          (start_result[i] = "none" /\ start_result'[i] = "Ok" /\ Silent(i)) =>
              decision_components' =
                  Append(decision_components, [decision |-> Dec(0, 0, 1, 1), tags |-> <<>>])]_vars

\* C25's case: every plugin of a route of several plugins returned from
\* start without a call of set_decision or set_tags.
C25_Witness ==
    /\ nplugins = MaxPlugins
    /\ \A i \in Routed : start_result[i] = "Ok" /\ Silent(i)
    /\ decision_components = [n \in Routed |-> [decision |-> Dec(0, 0, 1, 1), tags |-> <<>>]]

\* C29: when every plugin of the matched route failed, ran beyond the
\* timeout or wrote no decision, and when the route has no plugin, the
\* combined decision is (0,0,1) and the dispatch is the RequestHeaders
\* mutation, never the ImmediateResponse.
C29_AllIgnorantIsAllowed ==
    (Combined /\ \A i \in Routed : Failed(i) \/ "set_decision" \notin guest_calls[i]) =>
        /\ DecEq(combined, Ignorance)
        /\ Dispatched => outbound[1].type = "RequestHeaders"

\* The decisions the plugins of the route returned, in the order of the
\* route's plugin list.
Results == [n \in Routed |-> ctx[n].decision]

\* Two decisions agree within 1e-6 on each mass.
Within(p, q) ==
    /\ Abs(p.accept * q.den - q.accept * p.den) * 1000000 <= p.den * q.den
    /\ Abs(p.restrict * q.den - q.restrict * p.den) * 1000000 <= p.den * q.den
    /\ Abs(p.unknown * q.den - q.unknown * p.den) * 1000000 <= p.den * q.den

\* Whatever the order in which the tasks pushed their result, the combined
\* decision is the combination of the results in the order of the plugin
\* list, and the dispatch is the one that decision calls for.
SameInEveryOrder ==
    Combined =>
        /\ Within(combined, Combine(Results))
        /\ Dispatched =>
              (outbound[1].type = "RequestHeaders" <=> accepted(Combine(Results), 1, 2))

\* One plugin returned certain accept and another certain restrict.
FullConflict ==
    \E i, j \in Routed : DecEq(ctx[i].decision, Dec(1, 0, 0, 1)) /\ DecEq(ctx[j].decision, Dec(0, 1, 0, 1))

Ended(i) == task[i] \in {"done", "elapsed", "panicked"}

\* C34: the decision accumulator is read for the combination only when every
\* task spawned for the route has ended; it then holds one component for each
\* task that completed, hence at most one per plugin of the route, and no
\* component is appended to it afterwards.
C34_CombinedAfterEveryTaskEnded ==
    /\ [][(pc = "join" /\ pc' = "handle_decision") =>
              /\ \A i \in Routed : Ended(i)
              /\ \A i \in PluginIds \ Routed : task[i] = "unspawned"
              /\ Len(decision_components) = Cardinality({ i \in Routed : task[i] = "done" })
              /\ Len(decision_components) <= nplugins]_vars
    /\ [][Combined => (decision_components' = decision_components /\ task' = task)]_vars

\* C34's case: the decisions of a route of two plugins were combined after
\* one task completed and the other panicked; the accumulator holds the one
\* component of the task that completed.
C34_Witness ==
    /\ Combined /\ nplugins = 2
    /\ \E i, j \in Routed : task[i] = "done" /\ task[j] = "panicked"
    /\ Len(decision_components) = 1

\* A tag is a non-empty ASCII text with no comma and no control character.
ValidTag(tag) == tag \notin { "", "a,b" }

\* C33: set_tags rejects a list that holds an invalid tag: no invalid tag is
\* ever in a plugin's tag accumulator, nor among the tags start returned.
C33_InvalidTagsRejected ==
    /\ \A i \in PluginIds : \A n \in DOMAIN ctx[i].tags : ValidTag(ctx[i].tags[n])
    /\ \A n \in DOMAIN decision_components :
          \A k \in DOMAIN decision_components[n].tags : ValidTag(decision_components[n].tags[k])

(***************************************************************************)
(* The key-value store.  A key is a sequence of string pieces; a value is  *)
(* absent, an integer, a byte string or a set of members.  The store maps  *)
(* the keys that exist to their values, and the keys that have an expiry   *)
(* to the time they expire at.                                             *)
(***************************************************************************)
Nil == [t |-> "nil"]
IntV(n) == [t |-> "int", n |-> n]
BytesV(b) == [t |-> "bytes", b |-> b]
SetV(m) == [t |-> "set", m |-> m]

Db(kv, ttl) == [kv |-> kv, ttl |-> ttl]
Lookup(f, k) == IF k \in DOMAIN f THEN f[k] ELSE Nil
Put(f, k, v) == [x \in DOMAIN f \cup {k} |-> IF x = k THEN v ELSE f[x]]
Drop(f, ks) == [x \in DOMAIN f \ ks |-> f[x]]

\* str::starts_with
starts_with(key, prefix) ==
    Len(prefix) <= Len(key) /\ SubSeq(key, 1, Len(prefix)) = prefix

\* The reply of a store command: ok is FALSE when the store answers with an
\* error, value is the reply and db the store after the command.
Reply(db, v) == [ok |-> TRUE, value |-> v, db |-> db]
ErrorReply(db) == [ok |-> FALSE, value |-> Nil, db |-> db]

\* Keys whose expiry has been reached no longer exist.
Purge(db, now) ==
    LET dead == { k \in DOMAIN db.ttl : db.ttl[k] <= now }
    IN Db(Drop(db.kv, dead), Drop(db.ttl, dead))

redis_get(db, k) ==
    IF Lookup(db.kv, k).t = "set" THEN ErrorReply(db) ELSE Reply(db, Lookup(db.kv, k))
redis_set(db, k, v) == Reply(Db(Put(db.kv, k, v), Drop(db.ttl, {k})), Nil)
redis_del(db, ks) ==
    Reply(Db(Drop(db.kv, ks), Drop(db.ttl, ks)), IntV(Cardinality(ks \cap DOMAIN db.kv)))
redis_incrby(db, k, delta) ==
    LET old == Lookup(db.kv, k)
    IN IF old.t \notin {"nil", "int"} THEN ErrorReply(db)
       ELSE LET n == (IF old.t = "int" THEN old.n ELSE 0) + delta
            IN Reply(Db(Put(db.kv, k, IntV(n)), db.ttl), IntV(n))
redis_expireat(db, k, at, now) ==
    IF k \notin DOMAIN db.kv THEN Reply(db, IntV(0))
    ELSE IF at <= now THEN Reply(Db(Drop(db.kv, {k}), Drop(db.ttl, {k})), IntV(1))
    ELSE Reply(Db(db.kv, Put(db.ttl, k, at)), IntV(1))
redis_expire(db, k, ttl, now) == redis_expireat(db, k, now + ttl, now)
redis_sadd(db, k, members) ==
    LET old == Lookup(db.kv, k)
    IN IF old.t \notin {"nil", "set"} THEN ErrorReply(db)
       ELSE LET m == IF old.t = "set" THEN old.m ELSE {}
            IN IF members = {} THEN ErrorReply(db)
               ELSE Reply(Db(Put(db.kv, k, SetV(m \cup members)), db.ttl),
                          IntV(Cardinality(members \ m)))
redis_srem(db, k, members) ==
    LET old == Lookup(db.kv, k)
    IN IF old.t \notin {"nil", "set"} THEN ErrorReply(db)
       ELSE LET m == IF old.t = "set" THEN old.m ELSE {}
            IN IF members = {} THEN ErrorReply(db)
               ELSE Reply(Db(IF m \ members = {} THEN Drop(db.kv, {k})
                                                 ELSE Put(db.kv, k, SetV(m \ members)),
                             IF m \ members = {} THEN Drop(db.ttl, {k}) ELSE db.ttl),
                          IntV(Cardinality(members \cap m)))
redis_smembers(db, k) ==
    LET old == Lookup(db.kv, k)
    IN IF old.t \notin {"nil", "set"} THEN ErrorReply(db)
       ELSE Reply(db, SetV(IF old.t = "set" THEN old.m ELSE {}))

(***************************************************************************)
(* Host calls: what a call hands back and how.                             *)
(*   delivery "result"  the call returns to the guest (a value or the      *)
(*                      call's error result)                               *)
(*   delivery "trap"    the host function returns the outer wasmtime       *)
(*                      error: the guest traps                             *)
(*   delivery "panic"   the host function panics                           *)
(***************************************************************************)
Ok(v) == [t |-> "ok", v |-> v]
Err(kind, arg) == [t |-> "error", kind |-> kind, arg |-> arg]
Permission(key) == Err("Permission", key)
Remote(msg) == Err("Remote", <<msg>>)
InvalidArgument(msg) == Err("InvalidArgument", <<msg>>)
TypeError == Err("TypeError", <<>>)

Outcome(delivery, value, reached, db) ==
    [delivery |-> delivery, value |-> value, reached_store |-> reached, db |-> db]

\* verify_redis_prefixes
verify_redis_prefixes(allowed_key_prefixes, key) ==
    IF ~ \E prefix \in allowed_key_prefixes : starts_with(key, prefix)
    THEN Permission(key)
    ELSE Ok(Nil)

\* The part of a PluginCtx call that precedes the store command: the keys are
\* verified in order with `?`, invalid arguments are returned as the call's
\* error, a missing pool is returned as the call's error, and a failure to
\* get a connection or to convert an argument leaves through `?`.
PluginCtxPrecheck(db, allowed, keys, args_error, has_pool, conn_ok, conv_ok) ==
    LET denied == { n \in DOMAIN keys : verify_redis_prefixes(allowed, keys[n]).t = "error" }
    IN IF denied # {}
       THEN Outcome("trap",
                    verify_redis_prefixes(allowed, keys[CHOOSE n \in denied : \A m \in denied : n <= m]),
                    FALSE, db)
       ELSE IF args_error.t = "error" THEN Outcome("result", args_error, FALSE, db)
       ELSE IF ~has_pool THEN Outcome("result", Remote("no remote state configured"), FALSE, db)
       ELSE IF ~conn_ok THEN Outcome("trap", Remote("pool"), FALSE, db)
       ELSE IF ~conv_ok THEN Outcome("trap", TypeError, FALSE, db)
       ELSE Outcome("proceed", Nil, FALSE, db)

\* The store's reply as the call hands it back: an error reply leaves
\* through `?`, a reply is returned as the call's value.
PluginCtxReply(reply) ==
    IF ~reply.ok THEN Outcome("trap", Remote("command"), TRUE, reply.db)
    ELSE Outcome("result", Ok(reply.value), TRUE, reply.db)

PluginCtxCall(pre, reply) == IF pre.delivery = "proceed" THEN PluginCtxReply(reply) ELSE pre

\* A RequestContext call: redis_info, the connection, the converted argument
\* and the reply are each unwrapped.
RequestContextCall(db, has_pool, conn_ok, conv_ok, reply) ==
    IF ~has_pool \/ ~conn_ok \/ ~conv_ok THEN Outcome("panic", Nil, FALSE, db)
    ELSE IF ~reply.ok THEN Outcome("panic", Nil, TRUE, reply.db)
    ELSE Outcome("result", Ok(reply.value), TRUE, reply.db)

(***************************************************************************)
(* Plugin instances calling the remote-state host functions.               *)
(***************************************************************************)
MaxCallers == 2
MaxTime == 2
MaxCount == 2
MaxCalls == 2
MaxI64 == 1000

Callers == 1 .. MaxCallers
Hosts == {"PluginCtx", "RequestContext"}
\* The keys a plugin passes to a state operation: keys of its own, and the
\* key under which each host's rate-limit script keeps the counter of foo:x.
PluginKeys == { <<"foo:", "x">>, <<"bar:", "x">>, <<"bulwark:rl:", "foo:", "x">>, <<"rl:", "foo:", "x">> }
KeyLists ==
    { <<k>> : k \in PluginKeys }
        \cup { << <<"foo:", "x">>, <<"bar:", "x">> >>,
               << <<"foo:", "x">>, <<"bar:", "x">>, <<"rl:", "foo:", "x">> >> }
PermissionSets == { {}, { <<"foo:">> }, { <<"foo:">>, <<"bar:">> },
                    { <<"foo:">>, <<"bulwark:rl:">> } }
ByteStrings == { "v" }
MemberSets == { {}, {"m"} }
IncrDeltas == { -1, 1 }
PluginCtxTtls == { 1, MaxI64 + 1 }
RequestContextTtls == { -1, 1 }

NoCall == [op |-> "none"]
DbNow == Db(store, expiry)

StreamIdle ==
    /\ inbound = <<>> /\ outbound = <<>> /\ pc = "idle" /\ http_req = "none"
    /\ nplugins = 0
    /\ task = [i \in PluginIds |-> "unspawned"]
    /\ overran = [i \in PluginIds |-> FALSE]
    /\ ctx = [i \in PluginIds |-> NewRequestContext]
    /\ joined = [i \in PluginIds |-> "none"]
    /\ decision_components = <<>>
    /\ combined = Ignorance
    /\ combined_tags = {}
    /\ start_result = [i \in PluginIds |-> "none"]
    /\ guest_calls = [i \in PluginIds |-> {}]

\* One instance of either host, with or without a store configured.
InitState ==
    /\ StreamIdle
    /\ HostIdle
    /\ store = <<>> /\ expiry = <<>> /\ clock = 0 /\ store_clock = 0
    /\ pool \in BOOLEAN
    /\ permissions \in PermissionSets
    /\ \E h \in Hosts :
          inst = [c \in Callers |->
                     [host |-> h, st |-> IF c = 1 THEN "alive" ELSE "absent", calls |-> 0]]
    /\ pending = [c \in Callers |-> NoCall]
    /\ last_call = NoCall
    /\ rl_prev = <<>> /\ bk_prev = <<>>

\* The instance is running its entry point and is not inside a host call.
Alive(c, host) ==
    /\ inst[c].host = host /\ inst[c].st = "alive" /\ pending[c].op = "none"
    /\ inst[c].calls < MaxCalls

\* A call returns, traps or panics: the store is as the call left it and a
\* trapped or panicked instance makes no further call.
CompleteArgs(c, op, keys, args, out) ==
    /\ store' = out.db.kv
    /\ expiry' = out.db.ttl
    /\ last_call' = [caller |-> c, host |-> inst[c].host, op |-> op, keys |-> keys,
                     args |-> args, delivery |-> out.delivery, value |-> out.value,
                     reached_store |-> out.reached_store]
    /\ inst' = [inst EXCEPT ![c].st =
                   CASE out.delivery = "trap" -> "trapped"
                     [] out.delivery = "panic" -> "panicked"
                     [] OTHER -> @,
                             ![c].calls = @ + 1]
    /\ UNCHANGED <<clock, store_clock, pool, permissions, streamVars, hostVars>>

Complete(c, op, keys, out) == CompleteArgs(c, op, keys, <<>>, out)

\* The command as the connection hands it back: it may fail in transit.
Sent(cmd_ok, reply) == IF cmd_ok THEN reply ELSE ErrorReply(DbNow)

\* The service's clock advances.
Tick ==
    /\ clock < MaxTime
    /\ clock' = clock + 1
    /\ UNCHANGED <<store, expiry, store_clock, pool, permissions, inst, pending, last_call,
                   rl_prev, bk_prev, streamVars, hostVars>>

\* The store's clock catches up with the service's; the store drops the keys
\* whose expiry is reached.
StoreTick ==
    /\ store_clock < clock
    /\ store_clock' = store_clock + 1
    /\ store' = Purge(DbNow, store_clock + 1).kv
    /\ expiry' = Purge(DbNow, store_clock + 1).ttl
    /\ UNCHANGED <<clock, pool, permissions, inst, pending, last_call, rl_prev, bk_prev, streamVars, hostVars>>

(***************************************************************************)
(* The redis host functions of PluginCtx (crates/host/src/context.rs).     *)
(***************************************************************************)
PluginCtx_get(c, key) ==
    /\ Alive(c, "PluginCtx")
    /\ \E conn_ok \in BOOLEAN, cmd_ok \in BOOLEAN :
          Complete(c, "get", <<key>>,
                   PluginCtxCall(PluginCtxPrecheck(DbNow, permissions, <<key>>, Ok(Nil),
                                                   pool, conn_ok, TRUE),
                                 Sent(cmd_ok, redis_get(DbNow, key))))
    /\ UNCHANGED <<pending, rl_prev, bk_prev>>

PluginCtx_set(c, key, value) ==
    /\ Alive(c, "PluginCtx")
    /\ \E conn_ok \in BOOLEAN, cmd_ok \in BOOLEAN :
          Complete(c, "set", <<key>>,
                   PluginCtxCall(PluginCtxPrecheck(DbNow, permissions, <<key>>, Ok(Nil),
                                                   pool, conn_ok, TRUE),
                                 Sent(cmd_ok, redis_set(DbNow, key, BytesV(value)))))
    /\ UNCHANGED <<pending, rl_prev, bk_prev>>

\* del verifying the first key of the list only.
PluginCtx_del_first_key_verified(c, keys) ==
    /\ Alive(c, "PluginCtx")
    /\ \E conn_ok \in BOOLEAN, cmd_ok \in BOOLEAN :
          Complete(c, "del", keys,
                   PluginCtxCall(PluginCtxPrecheck(DbNow, permissions, <<keys[1]>>, Ok(Nil),
                                                   pool, conn_ok, TRUE),
                                 Sent(cmd_ok, redis_del(DbNow, Range(keys)))))
    /\ UNCHANGED <<pending, rl_prev, bk_prev>>

PluginCtx_del(c, keys) ==
    /\ Alive(c, "PluginCtx")
    /\ \E conn_ok \in BOOLEAN, cmd_ok \in BOOLEAN :
          Complete(c, "del", keys,
                   PluginCtxCall(PluginCtxPrecheck(DbNow, permissions, keys, Ok(Nil),
                                                   pool, conn_ok, TRUE),
                                 Sent(cmd_ok, redis_del(DbNow, Range(keys)))))
    /\ UNCHANGED <<pending, rl_prev, bk_prev>>

PluginCtx_incr_by(c, key, delta) ==
    /\ Alive(c, "PluginCtx")
    /\ Lookup(store, key).t = "int" => (Lookup(store, key).n + delta) \in (0 - MaxCount) .. MaxCount
    /\ \E conn_ok \in BOOLEAN, cmd_ok \in BOOLEAN :
          Complete(c, "incr_by", <<key>>,
                   PluginCtxCall(PluginCtxPrecheck(DbNow, permissions, <<key>>, Ok(Nil),
                                                   pool, conn_ok, TRUE),
                                 Sent(cmd_ok, redis_incrby(DbNow, key, delta))))
    /\ UNCHANGED <<pending, rl_prev, bk_prev>>

PluginCtx_incr(c, key) == PluginCtx_incr_by(c, key, 1)

PluginCtx_sadd(c, key, values) ==
    /\ Alive(c, "PluginCtx")
    /\ \E conn_ok \in BOOLEAN, cmd_ok \in BOOLEAN :
          Complete(c, "sadd", <<key>>,
                   PluginCtxCall(PluginCtxPrecheck(DbNow, permissions, <<key>>, Ok(Nil),
                                                   pool, conn_ok, TRUE),
                                 Sent(cmd_ok, redis_sadd(DbNow, key, values))))
    /\ UNCHANGED <<pending, rl_prev, bk_prev>>

PluginCtx_smembers(c, key) ==
    /\ Alive(c, "PluginCtx")
    /\ \E conn_ok \in BOOLEAN, cmd_ok \in BOOLEAN :
          Complete(c, "smembers", <<key>>,
                   PluginCtxCall(PluginCtxPrecheck(DbNow, permissions, <<key>>, Ok(Nil),
                                                   pool, conn_ok, TRUE),
                                 Sent(cmd_ok, redis_smembers(DbNow, key))))
    /\ UNCHANGED <<pending, rl_prev, bk_prev>>

PluginCtx_srem(c, key, values) ==
    /\ Alive(c, "PluginCtx")
    /\ \E conn_ok \in BOOLEAN, cmd_ok \in BOOLEAN :
          Complete(c, "srem", <<key>>,
                   PluginCtxCall(PluginCtxPrecheck(DbNow, permissions, <<key>>, Ok(Nil),
                                                   pool, conn_ok, TRUE),
                                 Sent(cmd_ok, redis_srem(DbNow, key, values))))
    /\ UNCHANGED <<pending, rl_prev, bk_prev>>

PluginCtx_expire(c, key, ttl) ==
    /\ Alive(c, "PluginCtx")
    /\ \E conn_ok \in BOOLEAN, cmd_ok \in BOOLEAN :
          Complete(c, "expire", <<key>>,
                   PluginCtxCall(PluginCtxPrecheck(DbNow, permissions, <<key>>, Ok(Nil),
                                                   pool, conn_ok, ttl <= MaxI64),
                                 Sent(cmd_ok, redis_expire(DbNow, key, ttl, store_clock))))
    /\ UNCHANGED <<pending, rl_prev, bk_prev>>

PluginCtx_expire_at(c, key, unix_time) ==
    /\ Alive(c, "PluginCtx")
    /\ \E conn_ok \in BOOLEAN, cmd_ok \in BOOLEAN :
          Complete(c, "expire_at", <<key>>,
                   PluginCtxCall(PluginCtxPrecheck(DbNow, permissions, <<key>>, Ok(Nil),
                                                   pool, conn_ok, unix_time <= MaxI64),
                                 Sent(cmd_ok, redis_expireat(DbNow, key, unix_time, store_clock))))
    /\ UNCHANGED <<pending, rl_prev, bk_prev>>

(***************************************************************************)
(* The remote-state host functions of RequestContext                       *)
(* (crates/wasm-host/src/plugin.rs).                                       *)
(***************************************************************************)
get_remote_state(c, key) ==
    /\ Alive(c, "RequestContext")
    /\ \E conn_ok \in BOOLEAN, cmd_ok \in BOOLEAN :
          Complete(c, "get_remote_state", <<key>>,
                   RequestContextCall(DbNow, pool, conn_ok, TRUE, Sent(cmd_ok, redis_get(DbNow, key))))
    /\ UNCHANGED <<pending, rl_prev, bk_prev>>

set_remote_state(c, key, value) ==
    /\ Alive(c, "RequestContext")
    /\ \E conn_ok \in BOOLEAN, cmd_ok \in BOOLEAN :
          Complete(c, "set_remote_state", <<key>>,
                   RequestContextCall(DbNow, pool, conn_ok, TRUE, Sent(cmd_ok, redis_set(DbNow, key, BytesV(value)))))
    /\ UNCHANGED <<pending, rl_prev, bk_prev>>

increment_remote_state_by(c, key, delta) ==
    /\ Alive(c, "RequestContext")
    /\ Lookup(store, key).t = "int" => (Lookup(store, key).n + delta) \in (0 - MaxCount) .. MaxCount
    /\ \E conn_ok \in BOOLEAN, cmd_ok \in BOOLEAN :
          Complete(c, "increment_remote_state_by", <<key>>,
                   RequestContextCall(DbNow, pool, conn_ok, TRUE, Sent(cmd_ok, redis_incrby(DbNow, key, delta))))
    /\ UNCHANGED <<pending, rl_prev, bk_prev>>

increment_remote_state(c, key) == increment_remote_state_by(c, key, 1)

set_remote_ttl(c, key, ttl) ==
    /\ Alive(c, "RequestContext")
    /\ \E conn_ok \in BOOLEAN, cmd_ok \in BOOLEAN :
          Complete(c, "set_remote_ttl", <<key>>,
                   RequestContextCall(DbNow, pool, conn_ok, ttl >= 0, Sent(cmd_ok, redis_expire(DbNow, key, ttl, store_clock))))
    /\ UNCHANGED <<pending, rl_prev, bk_prev>>

(***************************************************************************)
(* PluginCtx::incr_rate_limit and the increment_rate_limit script.  The    *)
(* call reads the service's clock, then the store runs the script in one   *)
(* step: calls in flight run their scripts in any order.                   *)
(***************************************************************************)
RateV(attempts, expiration) ==
    [t |-> "rate", attempts |-> attempts, expiration |-> expiration]

counter_key(key) == <<"bulwark:rl:">> \o key
expiration_key(key) == counter_key(key) \o <<":exp">>

\* The increment script without its test of the recorded expiration: every
\* call starts a new window.
increment_rate_limit_rewriting(db, key, increment_delta, expiration_window, timestamp, now) ==
    LET next_expiration == timestamp + expiration_window
        db1 == redis_set(db, expiration_key(key), IntV(next_expiration)).db
        db2 == redis_set(db1, counter_key(key), IntV(0)).db
        db3 == redis_expireat(db2, expiration_key(key), next_expiration + 1, now).db
        db4 == redis_expireat(db3, counter_key(key), next_expiration + 1, now).db
        attempts == redis_incrby(db4, counter_key(key), increment_delta)
    IN IF ~attempts.ok THEN ErrorReply(db4)
       ELSE Reply(attempts.db, RateV(attempts.value.n, next_expiration))

increment_rate_limit(db, key, increment_delta, expiration_window, timestamp, now) ==
    LET got == redis_get(db, expiration_key(key))
        expiration == got.value
        next_expiration == timestamp + expiration_window
        expired == expiration.t # "int" \/ timestamp > expiration.n
        db1 == redis_set(db, expiration_key(key), IntV(next_expiration)).db
        db2 == redis_set(db1, counter_key(key), IntV(0)).db
        db3 == redis_expireat(db2, expiration_key(key), next_expiration + 1, now).db
        db4 == redis_expireat(db3, counter_key(key), next_expiration + 1, now).db
        before == IF expired THEN db4 ELSE db
        attempts == redis_incrby(before, counter_key(key), increment_delta)
    IN IF ~got.ok THEN ErrorReply(db)
       ELSE IF ~attempts.ok THEN ErrorReply(before)
       ELSE Reply(attempts.db,
                  RateV(attempts.value.n,
                        IF expired THEN next_expiration ELSE expiration.n))

\* incr_rate_limit's argument check without the test of delta.
incr_rate_limit_arguments_unchecked(delta, window) ==
    IF window < 0 THEN InvalidArgument("window must be positive") ELSE Ok(Nil)

incr_rate_limit_arguments(delta, window) ==
    IF delta < 0 THEN InvalidArgument("delta must be positive")
    ELSE IF window < 0 THEN InvalidArgument("window must be positive")
    ELSE Ok(Nil)

PluginCtx_incr_rate_limit(c, key, delta, window) ==
    /\ Alive(c, "PluginCtx")
    /\ Lookup(store, counter_key(key)).t = "int" =>
          Lookup(store, counter_key(key)).n + delta <= MaxCount
    /\ \E conn_ok \in BOOLEAN :
          LET pre == PluginCtxPrecheck(DbNow, permissions, <<key>>,
                                       incr_rate_limit_arguments(delta, window),
                                       pool, conn_ok, TRUE)
          IN IF pre.delivery = "proceed"
             THEN /\ pending' = [pending EXCEPT ![c] =
                                    [op |-> "incr_rate_limit", key |-> key, delta |-> delta,
                                     window |-> window, timestamp |-> clock]]
                  /\ UNCHANGED <<store, expiry, clock, store_clock, pool, permissions, inst, last_call,
                                 rl_prev, bk_prev, streamVars, hostVars>>
             ELSE /\ CompleteArgs(c, "incr_rate_limit", <<key>>,
                                  [op |-> "incr_rate_limit", delta |-> delta,
                                   window |-> window], pre)
                  /\ UNCHANGED <<pending, rl_prev, bk_prev>>

\* script.invoke_async: the store runs the script of a call in flight.
invoke_increment_rate_limit(c) ==
    /\ inst[c].host = "PluginCtx" /\ inst[c].st = "alive"
    /\ pending[c].op = "incr_rate_limit"
    /\ \E cmd_ok \in BOOLEAN :
          LET p == pending[c]
              out == PluginCtxReply(Sent(cmd_ok,
                         increment_rate_limit(DbNow, p.key, p.delta, p.window,
                                              p.timestamp, store_clock)))
          IN /\ CompleteArgs(c, "incr_rate_limit", <<p.key>>, p, out)
             /\ rl_prev' = IF out.delivery = "result"
                           THEN Put(rl_prev, p.key,
                                    [attempts |-> out.value.v.attempts,
                                     expiration |-> out.value.v.expiration,
                                     window |-> p.window,
                                     before |-> IF p.key \in DOMAIN rl_prev
                                                THEN rl_prev[p.key].attempts ELSE -1])
                           ELSE rl_prev
    /\ pending' = [pending EXCEPT ![c] = NoCall]
    /\ UNCHANGED bk_prev

(***************************************************************************)
(* SpecState: one instance of either host makes any sequence of calls.     *)
(* SpecRate: PluginCtx instances increment rate limits concurrently.       *)
(***************************************************************************)
StateRateDeltas == { -1, 1 }
StateRateWindows == { -1, 1 }
RateKeys == { <<"foo:", "x">> }
RateDeltas == { -1, 1, 2 }
RateWindows == { -1, 0, 1 }

PluginCtxNext(c) ==
    \/ \E key \in PluginKeys : PluginCtx_get(c, key)
    \/ \E key \in PluginKeys, value \in ByteStrings : PluginCtx_set(c, key, value)
    \/ \E keys \in KeyLists : PluginCtx_del(c, keys)
    \/ \E key \in PluginKeys : PluginCtx_incr(c, key)
    \/ \E key \in PluginKeys, delta \in IncrDeltas : PluginCtx_incr_by(c, key, delta)
    \/ \E key \in PluginKeys, values \in MemberSets : PluginCtx_sadd(c, key, values)
    \/ \E key \in PluginKeys : PluginCtx_smembers(c, key)
    \/ \E key \in PluginKeys, values \in MemberSets : PluginCtx_srem(c, key, values)
    \/ \E key \in PluginKeys, ttl \in PluginCtxTtls : PluginCtx_expire(c, key, ttl)
    \/ \E key \in PluginKeys, unix_time \in PluginCtxTtls \cup {MaxTime} :
          PluginCtx_expire_at(c, key, unix_time)
    \/ \E key \in RateKeys, delta \in StateRateDeltas, window \in StateRateWindows :
          PluginCtx_incr_rate_limit(c, key, delta, window)
    \/ invoke_increment_rate_limit(c)

RequestContextNext(c) ==
    \/ \E key \in PluginKeys : get_remote_state(c, key)
    \/ \E key \in PluginKeys, value \in ByteStrings : set_remote_state(c, key, value)
    \/ \E key \in PluginKeys : increment_remote_state(c, key)
    \/ \E key \in PluginKeys, delta \in IncrDeltas : increment_remote_state_by(c, key, delta)
    \/ \E key \in PluginKeys, ttl \in RequestContextTtls : set_remote_ttl(c, key, ttl)

NextState ==
    \/ Tick
    \/ StoreTick
    \/ \E c \in Callers : PluginCtxNext(c)
    \/ \E c \in Callers : RequestContextNext(c)

SpecState == InitState /\ [][NextState]_vars

InitRate ==
    /\ StreamIdle
    /\ HostIdle
    /\ store = <<>> /\ expiry = <<>> /\ clock = 0 /\ store_clock = 0
    /\ pool = TRUE
    /\ permissions = { <<"foo:">> }
    /\ inst = [c \in Callers |-> [host |-> "PluginCtx", st |-> "alive", calls |-> 0]]
    /\ pending = [c \in Callers |-> NoCall]
    /\ last_call = NoCall
    /\ rl_prev = <<>> /\ bk_prev = <<>>

NextRate ==
    \/ Tick
    \/ StoreTick
    \/ \E c \in Callers, key \in RateKeys, delta \in RateDeltas, window \in RateWindows :
          PluginCtx_incr_rate_limit(c, key, delta, window)
    \/ \E c \in Callers : invoke_increment_rate_limit(c)

SpecRate == InitRate /\ [][NextRate]_vars

(***************************************************************************)
(* Properties of the remote-state calls.                                   *)
(***************************************************************************)
Declared(key) == \E prefix \in permissions : starts_with(key, prefix)
Called == last_call.op # "none"

\* C5: a remote-state operation on a key that begins with none of the
\* plugin's declared state prefixes yields Permission(key) for such a key,
\* and no command reaches the store, whether or not a store is configured.
C5_UndeclaredKeyDenied ==
    (Called /\ \E n \in DOMAIN last_call.keys : ~Declared(last_call.keys[n])) =>
        /\ last_call.value.t = "error"
        /\ last_call.value.kind = "Permission"
        /\ \E n \in DOMAIN last_call.keys :
              ~Declared(last_call.keys[n]) /\ last_call.value.arg = last_call.keys[n]
        /\ ~last_call.reached_store

\* C6: a remote-state call that fails is delivered to the plugin as the
\* call's error result, and the instance that made it stays alive.
C6_FailureIsErrorResult ==
    (Called /\ last_call.value.t # "ok") =>
        /\ last_call.delivery = "result"
        /\ last_call.value.t = "error"
        /\ inst[last_call.caller].st = "alive"

\* The script of a call in flight runs and the call returns a rate.
ScriptReturns(c) ==
    /\ pending[c].op = "incr_rate_limit"
    /\ pending'[c].op = "none"
    /\ last_call'.delivery = "result"

SameWindowBefore(c) ==
    /\ pending[c].key \in DOMAIN rl_prev
    /\ rl_prev[pending[c].key].window = pending[c].window

\* C10 as stated: over the calls on one key and window, in the order their
\* scripts run, a call whose timestamp is not beyond the expiration returned
\* by the call before it returns at least that call's attempts, and a call
\* whose timestamp is beyond it returns its own delta.
C10_NonDecreasingUntilTimestampBeyond ==
    [][\A c \in Callers : (ScriptReturns(c) /\ SameWindowBefore(c)) =>
          LET p == pending[c]
              prev == rl_prev[p.key]
              attempts == last_call'.value.v.attempts
          IN IF p.timestamp > prev.expiration
             THEN attempts = p.delta
             ELSE attempts >= prev.attempts]_vars

\* C10, amended: a call that finds an expiration recorded for the key and
\* whose timestamp is not beyond it returns at least the attempts of the call
\* before it; a call that finds no expiration recorded (none was written, or
\* the store has expired the keys) or whose timestamp is beyond the recorded
\* expiration returns its own delta.
C10_NonDecreasingUntilReset ==
    [][\A c \in Callers : ScriptReturns(c) =>
          LET p == pending[c]
              recorded == Lookup(store, expiration_key(p.key))
              attempts == last_call'.value.v.attempts
          IN IF recorded.t = "int" /\ p.timestamp <= recorded.n
             THEN /\ p.key \in DOMAIN rl_prev
                  /\ attempts >= rl_prev[p.key].attempts
                  /\ attempts = rl_prev[p.key].attempts + p.delta
             ELSE attempts = p.delta]_vars

\* C10's case: attempts had accumulated to 3 over two calls on a key when a
\* call on that key started over and returned its own delta of 1.
C10_Witness ==
    /\ Called /\ last_call.op = "incr_rate_limit" /\ last_call.delivery = "result"
    /\ last_call.value.t = "ok"
    /\ \E key \in DOMAIN rl_prev :
          /\ last_call.keys = <<key>>
          /\ rl_prev[key].before = 3
          /\ rl_prev[key].attempts = 1
          /\ last_call.value.v.attempts = 1

(***************************************************************************)
(* Scripted calls.  A script returns a Lua table; the store converts it to *)
(* a reply array, which the client converts to a tuple of integers.        *)
(***************************************************************************)
StatusV(s) == [t |-> "status", s |-> s]
Some(v) == [t |-> "some", v |-> v]
None == [t |-> "none"]

\* tonumber(redis.call("get", k)): nil when the key is absent or not a number.
tonumber(v) == IF v.t = "int" THEN v ELSE Nil

\* `x or 0`
or_0(v) == IF v.t = "nil" THEN IntV(0) ELSE v

\* `return { ... }`: the reply array ends before the table's first nil.
lua_table_reply(values) ==
    LET nils == { n \in DOMAIN values : values[n].t = "nil" }
    IN IF nils = {} THEN values
       ELSE SubSeq(values, 1, (CHOOSE n \in nils : \A m \in nils : n <= m) - 1)

\* invoke::<(i64, ..., i64)>: the reply must hold exactly `arity` elements,
\* each of them an integer, or the conversion fails with a type error.
invoke(reply, arity) ==
    IF ~reply.ok THEN ErrorReply(reply.db)
    ELSE LET array == lua_table_reply(reply.value)
         IN IF Len(array) = arity /\ \A n \in DOMAIN array : array[n].t = "int"
            THEN Reply(reply.db, [n \in 1 .. arity |-> array[n].n])
            ELSE [ok |-> FALSE, value |-> TypeError, db |-> reply.db]

\* map_err(|err| Error::Remote(err.to_string())) on the error of an invoke.
InvokeError(reply) ==
    IF reply.value.t = "nil" THEN Remote("command") ELSE Remote("response type")

(***************************************************************************)
(* PluginCtx::incr_breaker, PluginCtx::check_breaker and their scripts     *)
(* (crates/host/src/context.rs).                                           *)
(***************************************************************************)
\* The keys of the breaker of `key`, in the order the scripts name them:
\* generation_key, success_key, failure_key, consec_success_key,
\* consec_failure_key and expiration_key.
breaker_keys(key) ==
    << <<"bulwark:bk:g:">> \o key, <<"bulwark:bk:s:">> \o key, <<"bulwark:bk:f:">> \o key,
       <<"bulwark:bk:cs:">> \o key, <<"bulwark:bk:cf:">> \o key,
       <<"bulwark:bk:">> \o key \o <<":exp">> >>

\* redis.call("expireat", k, at) for each key of the list in turn.
RECURSIVE expireat_each(_, _, _, _)
expireat_each(db, keys, at, now) ==
    IF keys = <<>> THEN db
    ELSE expireat_each(redis_expireat(db, Head(keys), at, now).db, Tail(keys), at, now)

\* increment_breaker without the increment of the generation.
bump_generation_by_0(db, key) == redis_incrby(db, breaker_keys(key)[1], 0)

\* `local generation = redis.call("incrby", generation_key, 1)`
bump_generation(db, key) == redis_incrby(db, breaker_keys(key)[1], 1)

\* The increment_breaker script taking its failure branch whenever
\* failure_delta is positive.
increment_breaker_failure_first(db, key, success_delta, failure_delta, expiration_window, timestamp, now) ==
    LET success_key == breaker_keys(key)[2]
        failure_key == breaker_keys(key)[3]
        consec_success_key == breaker_keys(key)[4]
        consec_failure_key == breaker_keys(key)[5]
        expiration_key_ == breaker_keys(key)[6]
        expiration == timestamp + expiration_window
        generation == bump_generation(db, key)
        \* if success_delta > 0 then
        s1 == redis_incrby(generation.db, success_key, success_delta)
        s2 == redis_get(s1.db, failure_key)
        s3 == redis_incrby(s2.db, consec_success_key, success_delta)
        s4 == redis_set(s3.db, consec_failure_key, IntV(0))
        \* else
        f1 == redis_get(generation.db, success_key)
        f2 == redis_incrby(f1.db, failure_key, failure_delta)
        f3 == redis_set(f2.db, consec_success_key, IntV(0))
        f4 == redis_incrby(f3.db, consec_failure_key, failure_delta)
        counted == IF success_delta > 0 /\ failure_delta = 0
                   THEN [ok |-> s1.ok /\ s2.ok /\ s3.ok, db |-> s4.db,
                         values |-> <<or_0(s1.value), or_0(tonumber(s2.value)),
                                      or_0(s3.value), IntV(0)>>]
                   ELSE [ok |-> f1.ok /\ f2.ok /\ f4.ok, db |-> f4.db,
                         values |-> <<or_0(tonumber(f1.value)), or_0(f2.value), IntV(0),
                                      or_0(f4.value)>>]
        stamped == redis_set(counted.db, expiration_key_, IntV(expiration)).db
        expiring == expireat_each(stamped, breaker_keys(key), expiration + 1, now)
    IN IF ~generation.ok THEN ErrorReply(db)
       ELSE IF ~counted.ok THEN ErrorReply(generation.db)
       ELSE Reply(expiring, <<generation.value>> \o counted.values \o <<IntV(expiration)>>)

increment_breaker(db, key, success_delta, failure_delta, expiration_window, timestamp, now) ==
    LET success_key == breaker_keys(key)[2]
        failure_key == breaker_keys(key)[3]
        consec_success_key == breaker_keys(key)[4]
        consec_failure_key == breaker_keys(key)[5]
        expiration_key_ == breaker_keys(key)[6]
        expiration == timestamp + expiration_window
        generation == bump_generation(db, key)
        \* if success_delta > 0 then
        s1 == redis_incrby(generation.db, success_key, success_delta)
        s2 == redis_get(s1.db, failure_key)
        s3 == redis_incrby(s2.db, consec_success_key, success_delta)
        s4 == redis_set(s3.db, consec_failure_key, IntV(0))
        \* else
        f1 == redis_get(generation.db, success_key)
        f2 == redis_incrby(f1.db, failure_key, failure_delta)
        f3 == redis_set(f2.db, consec_success_key, IntV(0))
        f4 == redis_incrby(f3.db, consec_failure_key, failure_delta)
        counted == IF success_delta > 0
                   THEN [ok |-> s1.ok /\ s2.ok /\ s3.ok, db |-> s4.db,
                         values |-> <<or_0(s1.value), or_0(tonumber(s2.value)),
                                      or_0(s3.value), IntV(0)>>]
                   ELSE [ok |-> f1.ok /\ f2.ok /\ f4.ok, db |-> f4.db,
                         values |-> <<or_0(tonumber(f1.value)), or_0(f2.value), IntV(0),
                                      or_0(f4.value)>>]
        stamped == redis_set(counted.db, expiration_key_, IntV(expiration)).db
        expiring == expireat_each(stamped, breaker_keys(key), expiration + 1, now)
    IN IF ~generation.ok THEN ErrorReply(db)
       ELSE IF ~counted.ok THEN ErrorReply(generation.db)
       ELSE Reply(expiring, <<generation.value>> \o counted.values \o <<IntV(expiration)>>)

check_breaker(db, key) ==
    LET read(n) == or_0(tonumber(redis_get(db, breaker_keys(key)[n]).value))
    IN IF read(1).n <= 0
       THEN Reply(redis_del(db, Range(breaker_keys(key))).db,
                  <<IntV(0), IntV(0), IntV(0), IntV(0), IntV(0), IntV(0)>>)
       ELSE Reply(db, <<read(1), read(2), read(3), read(4), read(5), read(6)>>)

incr_breaker_arguments(success_delta, failure_delta, window) ==
    IF success_delta < 0 THEN InvalidArgument("success_delta must be positive")
    ELSE IF failure_delta < 0 THEN InvalidArgument("failure_delta must be positive")
    ELSE IF window < 0 THEN InvalidArgument("window must be positive")
    ELSE Ok(Nil)

\* The Breaker built from the tuple the script returned.
Breaker(tuple) ==
    [t |-> "breaker", generation |-> tuple[1], successes |-> tuple[2], failures |-> tuple[3],
     consecutive_successes |-> tuple[4], consecutive_failures |-> tuple[5],
     expiration |-> tuple[6]]

\* A scripted call begins: the prefixes, the arguments and the pool are
\* checked, a connection is taken and the service's clock is read.
Begin(c, op, key, pre, call) ==
    IF pre.delivery = "proceed"
    THEN /\ pending' = [pending EXCEPT ![c] = call]
         /\ UNCHANGED <<store, expiry, clock, store_clock, pool, permissions, inst, last_call,
                        rl_prev, bk_prev, streamVars, hostVars>>
    ELSE /\ CompleteArgs(c, op, <<key>>, call, pre)
         /\ UNCHANGED <<pending, rl_prev, bk_prev>>

PluginCtx_incr_breaker(c, key, success_delta, failure_delta, window) ==
    /\ Alive(c, "PluginCtx")
    /\ \E conn_ok \in BOOLEAN :
          Begin(c, "incr_breaker", key,
                PluginCtxPrecheck(DbNow, permissions, <<key>>,
                                  incr_breaker_arguments(success_delta, failure_delta, window),
                                  pool, conn_ok, TRUE),
                [op |-> "incr_breaker", key |-> key, success_delta |-> success_delta,
                 failure_delta |-> failure_delta, window |-> window, timestamp |-> clock])

\* script.invoke_async of increment_breaker.
invoke_increment_breaker(c) ==
    /\ inst[c].host = "PluginCtx" /\ inst[c].st = "alive"
    /\ pending[c].op = "incr_breaker"
    /\ \E cmd_ok \in BOOLEAN :
          LET p == pending[c]
              reply == invoke(Sent(cmd_ok,
                                   increment_breaker(DbNow, p.key, p.success_delta,
                                                     p.failure_delta, p.window, p.timestamp,
                                                     store_clock)), 6)
              out == IF ~reply.ok THEN Outcome("trap", InvokeError(reply), TRUE, reply.db)
                     ELSE Outcome("result", Ok(Breaker(reply.value)), TRUE, reply.db)
          IN /\ CompleteArgs(c, "incr_breaker", <<p.key>>, p, out)
             /\ bk_prev' = IF out.delivery = "result" THEN Put(bk_prev, p.key, out.value.v)
                           ELSE bk_prev
    /\ pending' = [pending EXCEPT ![c] = NoCall]
    /\ UNCHANGED rl_prev

PluginCtx_check_breaker(c, key) ==
    /\ Alive(c, "PluginCtx")
    /\ \E conn_ok \in BOOLEAN :
          Begin(c, "check_breaker", key,
                PluginCtxPrecheck(DbNow, permissions, <<key>>, Ok(Nil), pool, conn_ok, TRUE),
                [op |-> "check_breaker", key |-> key, timestamp |-> clock])

\* script.invoke_async of check_breaker.
invoke_check_breaker(c) ==
    /\ inst[c].host = "PluginCtx" /\ inst[c].st = "alive"
    /\ pending[c].op = "check_breaker"
    /\ \E cmd_ok \in BOOLEAN :
          LET p == pending[c]
              reply == invoke(Sent(cmd_ok, check_breaker(DbNow, p.key)), 6)
              out == IF ~reply.ok THEN Outcome("trap", InvokeError(reply), TRUE, reply.db)
                     ELSE Outcome("result",
                                  Ok(IF reply.value[1] > 0 THEN Some(Breaker(reply.value))
                                     ELSE None),
                                  TRUE, reply.db)
          IN Complete(c, "check_breaker", <<p.key>>, out)
    /\ pending' = [pending EXCEPT ![c] = NoCall]
    /\ UNCHANGED <<rl_prev, bk_prev>>

(***************************************************************************)
(* RequestContext::increment_breaker, RequestContext::check_breaker and    *)
(* the scripts of ScriptRegistry (crates/wasm-host/src/plugin.rs).         *)
(***************************************************************************)
\* The keys of the breaker of `key`, in the order the scripts name them:
\* generation_key, success_key, failure_key, consec_success_key and
\* consec_failure_key.
ScriptRegistry_breaker_keys(key) ==
    << <<"bk:g:">> \o key, <<"bk:s:">> \o key, <<"bk:f:">> \o key, <<"bk:cs:">> \o key,
       <<"bk:cf:">> \o key >>

\* EXPIRETIME: -2 when the key does not exist, -1 when it has no expiry.
redis_expiretime(db, k) ==
    IF k \notin DOMAIN db.kv THEN Reply(db, IntV(0 - 2))
    ELSE IF k \notin DOMAIN db.ttl THEN Reply(db, IntV(0 - 1))
    ELSE Reply(db, IntV(db.ttl[k]))

\* The count of the side that is reset is the reply of the SET command, and
\* the count of the side that is read has no default.
ScriptRegistry_increment_breaker(db, key, success_delta, failure_delta, window, timestamp, now) ==
    LET success_key == ScriptRegistry_breaker_keys(key)[2]
        failure_key == ScriptRegistry_breaker_keys(key)[3]
        consec_success_key == ScriptRegistry_breaker_keys(key)[4]
        consec_failure_key == ScriptRegistry_breaker_keys(key)[5]
        expiration == timestamp + window
        generation == redis_incrby(db, ScriptRegistry_breaker_keys(key)[1], 1)
        \* if success_delta > 0 then
        s1 == redis_incrby(generation.db, success_key, success_delta)
        s2 == redis_get(s1.db, failure_key)
        s3 == redis_incrby(s2.db, consec_success_key, success_delta)
        s4 == redis_set(s3.db, consec_failure_key, IntV(0))
        \* else
        f1 == redis_get(generation.db, success_key)
        f2 == redis_incrby(f1.db, failure_key, failure_delta)
        f3 == redis_set(f2.db, consec_success_key, IntV(0))
        f4 == redis_incrby(f3.db, consec_failure_key, failure_delta)
        counted == IF success_delta > 0
                   THEN [ok |-> s1.ok /\ s2.ok /\ s3.ok, db |-> s4.db,
                         values |-> <<s1.value, tonumber(s2.value), s3.value, StatusV("OK")>>]
                   ELSE [ok |-> f1.ok /\ f2.ok /\ f4.ok, db |-> f4.db,
                         values |-> <<tonumber(f1.value), f2.value, StatusV("OK"), f4.value>>]
        expiring == expireat_each(counted.db, ScriptRegistry_breaker_keys(key),
                                  expiration + 1, now)
    IN IF ~generation.ok THEN ErrorReply(db)
       ELSE IF ~counted.ok THEN ErrorReply(generation.db)
       ELSE Reply(expiring, <<generation.value>> \o counted.values \o <<IntV(expiration)>>)

ScriptRegistry_check_breaker(db, key) ==
    LET read(n) == tonumber(redis_get(db, ScriptRegistry_breaker_keys(key)[n]).value)
        expiration == redis_expiretime(db, ScriptRegistry_breaker_keys(key)[2]).value.n - 1
    IN IF read(1).t = "nil"
       THEN Reply(db, <<Nil, Nil, Nil, Nil, Nil, Nil>>)
       ELSE Reply(db, <<read(1), read(2), read(3), read(4), read(5), IntV(expiration)>>)

\* redis_info and the connection are unwrapped before the clock is read.
RequestContextPrecheck(db, has_pool, conn_ok) ==
    IF ~has_pool \/ ~conn_ok THEN Outcome("panic", Nil, FALSE, db)
    ELSE Outcome("proceed", Nil, FALSE, db)

\* invoke(..).unwrap(): a reply that does not convert panics; a reply of two
\* integers makes a RateInterface, one of six a BreakerInterface.
RequestContextUnwrap(reply) ==
    IF ~reply.ok THEN Outcome("panic", reply.value, TRUE, reply.db)
    ELSE Outcome("result",
                 Ok(IF Len(reply.value) = 2 THEN RateV(reply.value[1], reply.value[2])
                    ELSE Breaker(reply.value)),
                 TRUE, reply.db)

RequestContext_increment_breaker(c, key, success_delta, failure_delta, window) ==
    /\ Alive(c, "RequestContext")
    /\ \E conn_ok \in BOOLEAN :
          Begin(c, "incr_breaker", key, RequestContextPrecheck(DbNow, pool, conn_ok),
                [op |-> "incr_breaker", key |-> key, success_delta |-> success_delta,
                 failure_delta |-> failure_delta, window |-> window, timestamp |-> clock])

\* script.invoke of increment_breaker.
ScriptRegistry_invoke_increment_breaker(c) ==
    /\ inst[c].host = "RequestContext" /\ inst[c].st = "alive"
    /\ pending[c].op = "incr_breaker"
    /\ \E cmd_ok \in BOOLEAN :
          LET p == pending[c]
              out == RequestContextUnwrap(
                         invoke(Sent(cmd_ok,
                                     ScriptRegistry_increment_breaker(
                                         DbNow, p.key, p.success_delta, p.failure_delta,
                                         p.window, p.timestamp, store_clock)), 6))
          IN /\ CompleteArgs(c, "incr_breaker", <<p.key>>, p, out)
             /\ bk_prev' = IF out.delivery = "result" THEN Put(bk_prev, p.key, out.value.v)
                           ELSE bk_prev
    /\ pending' = [pending EXCEPT ![c] = NoCall]
    /\ UNCHANGED rl_prev

RequestContext_check_breaker(c, key) ==
    /\ Alive(c, "RequestContext")
    /\ \E conn_ok \in BOOLEAN :
          Begin(c, "check_breaker", key, RequestContextPrecheck(DbNow, pool, conn_ok),
                [op |-> "check_breaker", key |-> key, timestamp |-> clock])

\* script.invoke of check_breaker.
ScriptRegistry_invoke_check_breaker(c) ==
    /\ inst[c].host = "RequestContext" /\ inst[c].st = "alive"
    /\ pending[c].op = "check_breaker"
    /\ \E cmd_ok \in BOOLEAN :
          Complete(c, "check_breaker", <<pending[c].key>>,
                   RequestContextUnwrap(
                       invoke(Sent(cmd_ok, ScriptRegistry_check_breaker(DbNow, pending[c].key)),
                              6)))
    /\ pending' = [pending EXCEPT ![c] = NoCall]
    /\ UNCHANGED <<rl_prev, bk_prev>>

(***************************************************************************)
(* SpecBreaker: instances of one host call incr_breaker and check_breaker  *)
(* on one key, concurrently.                                               *)
(***************************************************************************)
BreakerDeltas == { 0, 1 }
BreakerWindows == { 0, 1 }
MaxBreakerCalls == 2

\* The calls begun so far, by all callers, are fewer than the bound.
BreakerBudget ==
    Cardinality({ c \in Callers : pending[c].op # "none" })
        + inst[1].calls + inst[2].calls < MaxBreakerCalls

InitBreaker ==
    /\ StreamIdle
    /\ HostIdle
    /\ store = <<>> /\ expiry = <<>> /\ clock = 0 /\ store_clock = 0
    /\ pool = TRUE
    /\ permissions = { <<"foo:">> }
    /\ \E h \in Hosts : inst = [c \in Callers |-> [host |-> h, st |-> "alive", calls |-> 0]]
    /\ pending = [c \in Callers |-> NoCall]
    /\ last_call = NoCall
    /\ rl_prev = <<>> /\ bk_prev = <<>>

NextBreaker ==
    \/ Tick
    \/ StoreTick
    \/ \E c \in Callers, key \in RateKeys, success_delta \in BreakerDeltas,
          failure_delta \in BreakerDeltas, window \in BreakerWindows :
          BreakerBudget /\ PluginCtx_incr_breaker(c, key, success_delta, failure_delta, window)
    \/ \E c \in Callers : invoke_increment_breaker(c)
    \/ \E c \in Callers, key \in RateKeys :
          BreakerBudget /\ PluginCtx_check_breaker(c, key)
    \/ \E c \in Callers : invoke_check_breaker(c)
    \/ \E c \in Callers, key \in RateKeys, success_delta \in BreakerDeltas,
          failure_delta \in BreakerDeltas, window \in BreakerWindows :
          BreakerBudget
              /\ RequestContext_increment_breaker(c, key, success_delta, failure_delta, window)
    \/ \E c \in Callers : ScriptRegistry_invoke_increment_breaker(c)
    \/ \E c \in Callers, key \in RateKeys :
          BreakerBudget /\ RequestContext_check_breaker(c, key)
    \/ \E c \in Callers : ScriptRegistry_invoke_check_breaker(c)

SpecBreaker == InitBreaker /\ [][NextBreaker]_vars


(***************************************************************************)
(* PluginCtx::check_rate_limit and the check_rate_limit script             *)
(* (crates/host/src/context.rs).                                           *)
(***************************************************************************)
\* The check_rate_limit script with its del outside the test of the timestamp.
check_rate_limit_removing(db, key, timestamp) ==
    LET attempts == or_0(tonumber(redis_get(db, counter_key(key)).value))
        expiration == or_0(tonumber(redis_get(db, expiration_key(key)).value))
    IN Reply(redis_del(db, {counter_key(key), expiration_key(key)}).db,
             IF timestamp > expiration.n THEN <<IntV(0), IntV(0)>> ELSE <<attempts, expiration>>)

check_rate_limit(db, key, timestamp) ==
    LET attempts == or_0(tonumber(redis_get(db, counter_key(key)).value))
        expiration == or_0(tonumber(redis_get(db, expiration_key(key)).value))
    IN IF timestamp > expiration.n
       THEN Reply(redis_del(db, {counter_key(key), expiration_key(key)}).db,
                  <<IntV(0), IntV(0)>>)
       ELSE Reply(db, <<attempts, expiration>>)

PluginCtx_check_rate_limit(c, key) ==
    /\ Alive(c, "PluginCtx")
    /\ \E conn_ok \in BOOLEAN :
          Begin(c, "check_rate_limit", key,
                PluginCtxPrecheck(DbNow, permissions, <<key>>, Ok(Nil), pool, conn_ok, TRUE),
                [op |-> "check_rate_limit", key |-> key, timestamp |-> clock])

\* script.invoke_async of check_rate_limit.
invoke_check_rate_limit(c) ==
    /\ inst[c].host = "PluginCtx" /\ inst[c].st = "alive"
    /\ pending[c].op = "check_rate_limit"
    /\ \E cmd_ok \in BOOLEAN :
          LET p == pending[c]
              reply == invoke(Sent(cmd_ok, check_rate_limit(DbNow, p.key, p.timestamp)), 2)
              out == IF ~reply.ok THEN Outcome("trap", InvokeError(reply), TRUE, reply.db)
                     ELSE Outcome("result",
                                  Ok(IF reply.value[1] > 0 THEN Some(RateV(reply.value[1], reply.value[2]))
                                     ELSE None),
                                  TRUE, reply.db)
          IN Complete(c, "check_rate_limit", <<p.key>>, out)
    /\ pending' = [pending EXCEPT ![c] = NoCall]
    /\ UNCHANGED <<rl_prev, bk_prev>>

(***************************************************************************)
(* RequestContext::increment_rate_limit, RequestContext::check_rate_limit  *)
(* and the scripts of ScriptRegistry (crates/wasm-host/src/plugin.rs).     *)
(***************************************************************************)
\* The keys of the rate limit of `key`: counter_key, the expiration_key of
\* the increment_rate_limit script and the expiration_key of the
\* check_rate_limit script.
ScriptRegistry_rate_keys(key) ==
    << <<"rl:">> \o key, <<"rl:">> \o key \o <<":ex">>, <<"rl:">> \o key \o <<":exp">> >>

ScriptRegistry_increment_rate_limit(db, key, increment_delta, window, timestamp, now) ==
    LET counter == ScriptRegistry_rate_keys(key)[1]
        expiration_k == ScriptRegistry_rate_keys(key)[2]
        expiration == tonumber(redis_get(db, expiration_k).value)
        next_expiration == timestamp + window
        expired == expiration.t = "nil" \/ timestamp > expiration.n
        db1 == redis_set(db, expiration_k, IntV(next_expiration)).db
        db2 == redis_set(db1, counter, IntV(0)).db
        db3 == redis_expireat(db2, expiration_k, next_expiration + 1, now).db
        db4 == redis_expireat(db3, counter, next_expiration + 1, now).db
        before == IF expired THEN db4 ELSE db
        attempts == redis_incrby(before, counter, increment_delta)
    IN IF ~attempts.ok THEN ErrorReply(before)
       ELSE Reply(attempts.db,
                  <<attempts.value, IF expired THEN IntV(next_expiration) ELSE expiration>>)

ScriptRegistry_check_rate_limit(db, key, timestamp) ==
    LET attempts == tonumber(redis_get(db, ScriptRegistry_rate_keys(key)[1]).value)
        expiration == tonumber(redis_get(db, ScriptRegistry_rate_keys(key)[3]).value)
    IN IF attempts.t = "nil" THEN Reply(db, <<Nil, Nil>>)
       ELSE IF expiration.t = "nil" \/ timestamp > expiration.n THEN Reply(db, <<Nil, Nil>>)
       ELSE Reply(db, <<attempts, expiration>>)

RequestContext_increment_rate_limit(c, key, delta, window) ==
    /\ Alive(c, "RequestContext")
    /\ Lookup(store, ScriptRegistry_rate_keys(key)[1]).t = "int" =>
          Lookup(store, ScriptRegistry_rate_keys(key)[1]).n + delta <= MaxCount
    /\ \E conn_ok \in BOOLEAN :
          Begin(c, "incr_rate_limit", key, RequestContextPrecheck(DbNow, pool, conn_ok),
                [op |-> "incr_rate_limit", key |-> key, delta |-> delta, window |-> window,
                 timestamp |-> clock])

\* script.invoke of increment_rate_limit.
ScriptRegistry_invoke_increment_rate_limit(c) ==
    /\ inst[c].host = "RequestContext" /\ inst[c].st = "alive"
    /\ pending[c].op = "incr_rate_limit"
    /\ \E cmd_ok \in BOOLEAN :
          LET p == pending[c]
              out == RequestContextUnwrap(
                         invoke(Sent(cmd_ok,
                                     ScriptRegistry_increment_rate_limit(
                                         DbNow, p.key, p.delta, p.window, p.timestamp,
                                         store_clock)), 2))
          IN /\ CompleteArgs(c, "incr_rate_limit", <<p.key>>, p, out)
             /\ rl_prev' = IF out.delivery = "result"
                           THEN Put(rl_prev, p.key,
                                    [attempts |-> out.value.v.attempts,
                                     expiration |-> out.value.v.expiration,
                                     window |-> p.window,
                                     before |-> IF p.key \in DOMAIN rl_prev
                                                THEN rl_prev[p.key].attempts ELSE -1])
                           ELSE rl_prev
    /\ pending' = [pending EXCEPT ![c] = NoCall]
    /\ UNCHANGED bk_prev

RequestContext_check_rate_limit(c, key) ==
    /\ Alive(c, "RequestContext")
    /\ \E conn_ok \in BOOLEAN :
          Begin(c, "check_rate_limit", key, RequestContextPrecheck(DbNow, pool, conn_ok),
                [op |-> "check_rate_limit", key |-> key, timestamp |-> clock])

\* script.invoke of check_rate_limit.
ScriptRegistry_invoke_check_rate_limit(c) ==
    /\ inst[c].host = "RequestContext" /\ inst[c].st = "alive"
    /\ pending[c].op = "check_rate_limit"
    /\ \E cmd_ok \in BOOLEAN :
          Complete(c, "check_rate_limit", <<pending[c].key>>,
                   RequestContextUnwrap(
                       invoke(Sent(cmd_ok,
                                   ScriptRegistry_check_rate_limit(DbNow, pending[c].key,
                                                                   pending[c].timestamp)),
                              2)))
    /\ pending' = [pending EXCEPT ![c] = NoCall]
    /\ UNCHANGED <<rl_prev, bk_prev>>

(***************************************************************************)
(* SpecLimit: one instance of either host calls incr_rate_limit and        *)
(* check_rate_limit on one key, one call after the other.                  *)
(***************************************************************************)
InitLimit ==
    /\ StreamIdle
    /\ HostIdle
    /\ store = <<>> /\ expiry = <<>> /\ clock = 0 /\ store_clock = 0
    /\ pool = TRUE
    /\ permissions = { <<"foo:">> }
    /\ \E h \in Hosts :
          inst = [c \in Callers |->
                     [host |-> h, st |-> IF c = 1 THEN "alive" ELSE "absent", calls |-> 0]]
    /\ pending = [c \in Callers |-> NoCall]
    /\ last_call = NoCall
    /\ rl_prev = <<>> /\ bk_prev = <<>>

NextLimit ==
    \/ Tick
    \/ StoreTick
    \/ \E c \in Callers, key \in RateKeys, delta \in BreakerDeltas, window \in BreakerWindows :
          PluginCtx_incr_rate_limit(c, key, delta, window)
    \/ \E c \in Callers : invoke_increment_rate_limit(c)
    \/ \E c \in Callers, key \in RateKeys : PluginCtx_check_rate_limit(c, key)
    \/ \E c \in Callers : invoke_check_rate_limit(c)
    \/ \E c \in Callers, key \in RateKeys, delta \in BreakerDeltas, window \in BreakerWindows :
          RequestContext_increment_rate_limit(c, key, delta, window)
    \/ \E c \in Callers : ScriptRegistry_invoke_increment_rate_limit(c)
    \/ \E c \in Callers, key \in RateKeys : RequestContext_check_rate_limit(c, key)
    \/ \E c \in Callers : ScriptRegistry_invoke_check_rate_limit(c)

SpecLimit == InitLimit /\ [][NextLimit]_vars

(***************************************************************************)
(* Properties of the breaker calls.                                        *)
(***************************************************************************)
\* The scripted call `op` of caller c returns to the guest in this step.
Returns(c, op) ==
    /\ pending[c].op = op
    /\ pending'[c].op = "none"
    /\ last_call'.delivery = "result"
    /\ last_call'.value.t = "ok"

\* The generation the store holds for the key, for the host of caller c.
RecordedGeneration(c, key) ==
    Lookup(store, IF inst[c].host = "PluginCtx" THEN breaker_keys(key)[1]
                  ELSE ScriptRegistry_breaker_keys(key)[1])

\* C11 as stated: in the order the scripts run, every incr_breaker that
\* returns on a key returns a generation strictly greater than the one
\* returned by the call before it, hence than those of all calls before it,
\* and no two calls return the same generation.
C11_GenerationNeverRepeats ==
    [][\A c \in Callers :
          (Returns(c, "incr_breaker") /\ pending[c].key \in DOMAIN bk_prev) =>
              last_call'.value.v.generation > bk_prev[pending[c].key].generation]_vars

\* C11, amended: in the order the scripts run, an incr_breaker that finds a
\* generation recorded for the key returns a generation strictly greater
\* than the one returned by the call before it; one that finds none (no call
\* was made, or the store has expired the keys) returns generation 1.
C11_GenerationIncreasesWhileRecorded ==
    [][\A c \in Callers : Returns(c, "incr_breaker") =>
          LET key == pending[c].key
              generation == last_call'.value.v.generation
          IN IF RecordedGeneration(c, key).t = "int"
             THEN /\ key \in DOMAIN bk_prev
                  /\ generation > bk_prev[key].generation
                  /\ generation = bk_prev[key].generation + 1
             ELSE generation = 1]_vars

\* C11's case: two callers had their incr_breaker in flight at once, both
\* scripts ran, and the second to run returned generation 2.
C11_Witness ==
    /\ last_call.op = "incr_breaker" /\ last_call.delivery = "result"
    /\ last_call.value.t = "ok"
    /\ inst[1].calls = 1 /\ inst[2].calls = 1
    /\ last_call.value.v.generation = 2


(***************************************************************************)
(* Properties of the rate-limit calls.                                     *)
(***************************************************************************)
\* The counter key and the expiration key that incr_rate_limit writes for
\* the key, for the host of caller c.
WrittenCounterKey(c, key) ==
    IF inst[c].host = "PluginCtx" THEN counter_key(key) ELSE ScriptRegistry_rate_keys(key)[1]
WrittenExpirationKey(c, key) ==
    IF inst[c].host = "PluginCtx" THEN expiration_key(key)
    ELSE ScriptRegistry_rate_keys(key)[2]

\* C12: incr_rate_limit(k, delta, window) stamped now, when no expiration is
\* recorded for k or now is beyond it, returns (delta, now + window) and
\* leaves them recorded as the counter and the expiration of k; otherwise it
\* returns the previous attempts plus delta and the recorded expiration,
\* which it leaves as it was.
C12_IncrementStartsOverOrAdds ==
    [][\A c \in Callers : Returns(c, "incr_rate_limit") =>
          LET p == pending[c]
              recorded == Lookup(store, WrittenExpirationKey(c, p.key))
              returned == last_call'.value.v
          IN IF recorded.t # "int" \/ p.timestamp > recorded.n
             THEN /\ returned = RateV(p.delta, p.timestamp + p.window)
                  /\ Lookup(store', WrittenCounterKey(c, p.key)) = IntV(p.delta)
                  /\ Lookup(store', WrittenExpirationKey(c, p.key))
                        = IntV(p.timestamp + p.window)
             ELSE /\ p.key \in DOMAIN rl_prev
                  /\ returned = RateV(rl_prev[p.key].attempts + p.delta, recorded.n)
                  /\ Lookup(store', WrittenCounterKey(c, p.key)) = IntV(returned.attempts)
                  /\ Lookup(store', WrittenExpirationKey(c, p.key)) = recorded]_vars


\* The scripted call `op` of caller c ends in this step, with a result, a
\* trap or a panic.
Completes(c, op) == pending[c].op = op /\ pending'[c].op = "none"

\* The call that ended failed in transit: the store sent no reply.
TransportFailure(call) ==
    /\ call.delivery \in {"trap", "panic"}
    /\ \/ call.value.t = "nil"
       \/ call.value.t = "error" /\ call.value.arg = <<"command">>

\* C13: after incr_rate_limit on k returned (attempts, expiration), with no
\* later incr_rate_limit on k, a check_rate_limit on k stamped now <=
\* expiration that the store answers returns Some of exactly that pair,
\* whatever delta was, 0 included.
C13_CheckReturnsWhatIncrementReturned ==
    [][\A c \in Callers :
          (/\ Completes(c, "check_rate_limit")
           /\ pending[c].key \in DOMAIN rl_prev
           /\ pending[c].timestamp <= rl_prev[pending[c].key].expiration
           /\ ~TransportFailure(last_call')) =>
              /\ last_call'.delivery = "result"
              /\ last_call'.value.t = "ok"
              /\ last_call'.value.v = Some(RateV(rl_prev[pending[c].key].attempts,
                                                rl_prev[pending[c].key].expiration))]_vars


\* The attempts an incr_rate_limit of caller c would return on the store db.
NextAttempts(c, db, key, delta, window, timestamp) ==
    IF inst[c].host = "PluginCtx"
    THEN increment_rate_limit(db, key, delta, window, timestamp, store_clock).value.attempts
    ELSE ScriptRegistry_increment_rate_limit(db, key, delta, window, timestamp,
                                             store_clock).value[1].n

\* C14: a check_rate_limit on k stamped after the expiration recorded for k,
\* which the store answers, returns None and leaves neither the counter key
\* nor the expiration key of k in the store, so that an incr_rate_limit on k
\* that follows returns its own delta.
C14_StaleCheckReturnsNoneAndRemoves ==
    [][\A c \in Callers :
          LET p == pending[c]
              recorded == Lookup(store, WrittenExpirationKey(c, p.key))
          IN (/\ Completes(c, "check_rate_limit")
              /\ recorded.t = "int" /\ p.timestamp > recorded.n
              /\ ~TransportFailure(last_call')) =>
                 /\ last_call'.delivery = "result"
                 /\ last_call'.value.t = "ok"
                 /\ last_call'.value.v = None
                 /\ WrittenCounterKey(c, p.key) \notin DOMAIN store'
                 /\ WrittenExpirationKey(c, p.key) \notin DOMAIN store'
                 /\ \A delta \in BreakerDeltas, window \in BreakerWindows,
                       timestamp \in p.timestamp .. MaxTime :
                       NextAttempts(c, Db(store', expiry'), p.key, delta, window, timestamp)
                           = delta]_vars


\* What the store holds for the n-th breaker key of the key (1 generation,
\* 2 successes, 3 failures, 4 consecutive successes, 5 consecutive
\* failures), for the host of caller c; 0 when it holds nothing.
RecordedCountIn(kv, c, key, n) ==
    LET keys == IF inst[c].host = "PluginCtx" THEN breaker_keys(key)
                ELSE ScriptRegistry_breaker_keys(key)
    IN or_0(tonumber(Lookup(kv, keys[n]))).n
RecordedCount(c, key, n) == RecordedCountIn(store, c, key, n)

\* An incr_breaker of caller c that the store answers ends in this step.
BreakerIncremented(c) ==
    Completes(c, "incr_breaker") /\ ~TransportFailure(last_call')

\* C15: an incr_breaker with a positive delta that the store answers returns
\* a breaker; with success_delta > 0 its successes and consecutive_successes are the recorded
\* ones plus success_delta, its consecutive_failures is the number 0 and its
\* failures are the recorded ones; with success_delta = 0 and failure_delta
\* > 0 its failures and consecutive_failures are the recorded ones plus
\* failure_delta, its consecutive_successes is the number 0 and its successes
\* are the recorded ones.
C15_IncrementRaisesOneSideResetsOther ==
    [][\A c \in Callers : BreakerIncremented(c) =>
          LET p == pending[c]
              returned == last_call'.value.v
          IN /\ (p.success_delta > 0 \/ p.failure_delta > 0) =>
                   last_call'.delivery = "result" /\ last_call'.value.t = "ok"
             /\ p.success_delta > 0 =>
                   /\ returned.successes = RecordedCount(c, p.key, 2) + p.success_delta
                   /\ returned.consecutive_successes
                         = RecordedCount(c, p.key, 4) + p.success_delta
                   /\ returned.consecutive_failures = 0
                   /\ returned.failures = RecordedCount(c, p.key, 3)
             /\ (p.success_delta = 0 /\ p.failure_delta > 0) =>
                   /\ returned.failures = RecordedCount(c, p.key, 3) + p.failure_delta
                   /\ returned.consecutive_failures
                         = RecordedCount(c, p.key, 5) + p.failure_delta
                   /\ returned.consecutive_successes = 0
                   /\ returned.successes = RecordedCount(c, p.key, 2)]_vars


\* C16: an incr_breaker with success_delta = 0 and failure_delta = 0 that the
\* store answers returns a breaker whose successes, failures,
\* consecutive_successes and consecutive_failures are the recorded ones, and
\* leaves each of the four recorded as it was.
C16_ZeroDeltasKeepTheCounts ==
    [][\A c \in Callers :
          LET p == pending[c]
              returned == last_call'.value.v
          IN (BreakerIncremented(c) /\ p.success_delta = 0 /\ p.failure_delta = 0) =>
                /\ last_call'.delivery = "result" /\ last_call'.value.t = "ok"
                /\ returned.successes = RecordedCount(c, p.key, 2)
                /\ returned.failures = RecordedCount(c, p.key, 3)
                /\ returned.consecutive_successes = RecordedCount(c, p.key, 4)
                /\ returned.consecutive_failures = RecordedCount(c, p.key, 5)
                /\ \A n \in 2 .. 5 :
                      RecordedCountIn(store', c, p.key, n) = RecordedCount(c, p.key, n)]_vars


\* The breaker a check_breaker returned, whether or not in an option.
Checked(value) == IF value.t = "some" THEN value.v ELSE value

\* C17: an incr_breaker stamped now that the store answers returns
\* expiration = now + window, and a check_breaker on the key that the store
\* answers, with no incr_breaker on the key since, returns exactly the six
\* values that incr_breaker returned.
C17_CheckReturnsWhatIncrementReturned ==
    [][\A c \in Callers :
          LET p == pending[c]
          IN /\ BreakerIncremented(c) =>
                   /\ last_call'.delivery = "result" /\ last_call'.value.t = "ok"
                   /\ last_call'.value.v.expiration = p.timestamp + p.window
             /\ (/\ Completes(c, "check_breaker")
                 /\ ~TransportFailure(last_call')
                 /\ p.key \in DOMAIN bk_prev) =>
                   /\ last_call'.delivery = "result" /\ last_call'.value.t = "ok"
                   /\ Checked(last_call'.value.v) = bk_prev[p.key]]_vars


\* C18: a check_breaker on k that the store answers returns, and never
\* traps or panics; it returns None when no generation is recorded for k and
\* a breaker otherwise.
C18_CheckIsNoneWithoutGeneration ==
    [][\A c \in Callers :
          (Completes(c, "check_breaker") /\ ~TransportFailure(last_call')) =>
              /\ last_call'.delivery = "result" /\ last_call'.value.t = "ok"
              /\ IF RecordedGeneration(c, pending[c].key).t = "int"
                 THEN Checked(last_call'.value.v).t = "breaker"
                 ELSE last_call'.value.v = None]_vars

(***************************************************************************)
(* The context bag of RequestContext (crates/wasm-host/src/plugin.rs).     *)
(* SpecContext: the plugin instances that execute_plugins builds for       *)
(* MaxBagRequests requests on a route of MaxPlugins plugins call           *)
(* get_context_value and set_context_value, in any order.                  *)
(***************************************************************************)
MaxBagRequests == 2
MaxBagCalls == 3

\* The instances: instance i runs for request RequestOf(i).
BagInstances == 1 .. (MaxBagRequests * 2)
RequestOf(i) == ((i - 1) \div 2) + 1

ContextKeys == { "k" }
ContextBytes == { "1", " 2", "{" }

JsonNull == [t |-> "Null"]
JsonNumber(n) == [t |-> "Number", n |-> n]

\* serde_json::from_slice: white space around the value is skipped; bytes
\* that are no JSON text are an error.
from_slice(bytes) ==
    CASE bytes = "1" -> [ok |-> TRUE, value |-> JsonNumber(1)]
      [] bytes = " 2" -> [ok |-> TRUE, value |-> JsonNumber(2)]
      [] OTHER -> [ok |-> FALSE, value |-> JsonNull]

\* serde_json::to_vec: the compact JSON text of the value.
to_vec(value) ==
    CASE value = JsonNull -> "null"
      [] value = JsonNumber(1) -> "1"
      [] value = JsonNumber(2) -> "2"

\* RequestContext::new: context is Arc::new(Mutex::new(Map::new())), an
\* allocation made for the instance being built; `arc` names the allocation.
NewContext(i) == [arc |-> i, map |-> <<>>]

\* What get_context_value returns from a map: the value of the key, or Null.
context_get(map, key) == to_vec(IF key \in DOMAIN map THEN map[key] ELSE JsonNull)

RECURSIVE CallsOf(_)
CallsOf(is) ==
    IF is = {} THEN 0
    ELSE LET i == CHOOSE x \in is : TRUE IN inst[i].calls + CallsOf(is \ {i})

BagBudget == CallsOf(BagInstances) < MaxBagCalls

InitContext ==
    /\ StreamIdle
    /\ store = <<>> /\ expiry = <<>> /\ clock = 0 /\ store_clock = 0 /\ pool = FALSE
    /\ permissions = {} /\ pending = <<>> /\ rl_prev = <<>> /\ bk_prev = <<>>
    /\ inst = [i \in BagInstances |-> [host |-> "RequestContext", st |-> "alive", calls |-> 0]]
    /\ last_call = NoCall
    /\ context = [i \in BagInstances |-> NewContext(i)]
    /\ http_domains = {} /\ http_sent = <<>>
    /\ StartIdle

\* The maps that share the storage of instance i's map.
SameMap(i) == { j \in BagInstances : context[j].arc = context[i].arc }

\* set_context_value: the bytes are parsed and the value is inserted in the
\* instance's map under its lock; bytes that do not parse panic at unwrap.
set_context_value(i, key, value) ==
    /\ BagBudget
    /\ inst[i].st = "alive"
    /\ LET parsed == from_slice(value)
       IN /\ context' = [j \in BagInstances |->
                           IF parsed.ok /\ j \in SameMap(i)
                           THEN [context[j] EXCEPT !.map = Put(@, key, parsed.value)]
                           ELSE context[j]]
          /\ inst' = [inst EXCEPT ![i].st = IF parsed.ok THEN @ ELSE "panicked",
                                  ![i].calls = @ + 1]
          /\ last_call' = [caller |-> i, host |-> "RequestContext", op |-> "set_context_value",
                           keys |-> <<key>>, bytes |-> value,
                           delivery |-> IF parsed.ok THEN "result" ELSE "panic",
                           value |-> Nil, reached_store |-> FALSE]
    /\ UNCHANGED <<store, expiry, clock, store_clock, pool, permissions, pending, rl_prev,
                   bk_prev, http_domains, http_sent, startVars, streamVars>>

\* get_context_value: the value of the key in the instance's map, or Null,
\* as JSON text.
get_context_value(i, key) ==
    /\ BagBudget
    /\ inst[i].st = "alive"
    /\ inst' = [inst EXCEPT ![i].calls = @ + 1]
    /\ last_call' = [caller |-> i, host |-> "RequestContext", op |-> "get_context_value",
                     keys |-> <<key>>, bytes |-> "",
                     delivery |-> "result",
                     value |-> BytesV(context_get(context[i].map, key)),
                     reached_store |-> FALSE]
    /\ UNCHANGED <<store, expiry, clock, store_clock, pool, permissions, pending, rl_prev,
                   bk_prev, context, http_domains, http_sent, startVars, streamVars>>

NextContext ==
    \/ \E i \in BagInstances, key \in ContextKeys, value \in ContextBytes :
          set_context_value(i, key, value)
    \/ \E i \in BagInstances, key \in ContextKeys : get_context_value(i, key)

SpecContext == InitContext /\ [][NextContext]_vars

\* Instance i returns from set_context_value in this step.
SetReturns(i) ==
    /\ inst'[i].calls = inst[i].calls + 1
    /\ last_call'.op = "set_context_value"
    /\ last_call'.delivery = "result"

\* C26: a value written with set_context_value by one plugin instance is
\* what get_context_value returns from then on in every other instance of
\* the same request, and it changes nothing of what the instances of
\* another request read.
C26_BagSharedWithinRequest ==
    [][\A i \in BagInstances : SetReturns(i) =>
          LET key == last_call'.keys[1]
              written == to_vec(from_slice(last_call'.bytes).value)
          IN \A j \in BagInstances \ {i} :
                IF RequestOf(j) = RequestOf(i)
                THEN context_get(context'[j].map, key) = written
                ELSE context_get(context'[j].map, key) = context_get(context[j].map, key)]_vars

(***************************************************************************)
(* Properties of the generic state operations.                             *)
(***************************************************************************)
\* The key is one the gateway's scripts keep a rate-limit or breaker value
\* under, for either host.
GatewayKey(key) ==
    /\ key # <<>>
    /\ Head(key) \in { "bulwark:rl:", "bulwark:bk:", "bulwark:bk:g:", "bulwark:bk:s:",
                       "bulwark:bk:f:", "bulwark:bk:cs:", "bulwark:bk:cf:",
                       "rl:", "bk:g:", "bk:s:", "bk:f:", "bk:cs:", "bk:cf:" }

ScriptedOps == { "incr_rate_limit", "check_rate_limit", "incr_breaker", "check_breaker" }

\* C27: a generic state operation on a key the gateway uses for its
\* rate-limit or breaker counters sends no command to the store, whatever
\* prefixes the plugin declares, and the value of such a key changes only
\* when one of the four scripted calls runs or the store expires the key.
C27_GatewayKeysOutOfReach ==
    /\ []((Called /\ last_call.op \notin ScriptedOps
             /\ \E n \in DOMAIN last_call.keys : GatewayKey(last_call.keys[n])) =>
            ~last_call.reached_store)
    /\ [][(\E key \in DOMAIN store \cup DOMAIN store' :
              GatewayKey(key) /\ Lookup(store, key) # Lookup(store', key)) =>
          \/ \E c \in Callers : pending[c].op \in ScriptedOps /\ pending'[c].op = "none"
          \/ store_clock' # store_clock]_vars

(***************************************************************************)
(* PluginCtx::send_request and verify_http_domains                         *)
(* (crates/host/src/context.rs).  SpecHttp: plugin instances with one set  *)
(* of allowed http domains make outbound requests.                         *)
(***************************************************************************)
\* The authority of an outbound request: its text, and the host a URL parser
\* finds in it (a DNS domain, an IP address, none, or no valid host).
Authority(text, host) == [text |-> text, host |-> host]

Authorities ==
    { Authority("example.com", "domain"), Authority("other.org", "domain"),
      Authority("127.0.0.1", "ipv4"), Authority("[::1]", "ipv6"),
      Authority("", "empty"), Authority("exa mple.com", "invalid") }

HttpDomainSets == SUBSET { "example.com", "other.org", "127.0.0.1" }

\* format!("//{}/", authority): a URL text with no scheme.
format_authority(authority) == [scheme |-> "", authority |-> authority]

\* Url::parse: there is no base URL, so a text without a scheme is
\* RelativeUrlWithoutBase; a text with a scheme is parsed up to its host.
Url_parse(input) ==
    IF input.scheme = "" THEN [ok |-> FALSE, url |-> Nil]
    ELSE IF input.authority.host \in {"empty", "invalid"} THEN [ok |-> FALSE, url |-> Nil]
    ELSE [ok |-> TRUE, url |-> input.authority]

\* Url::domain: the host when it is a DNS domain.
Url_domain(url) == IF url.host = "domain" THEN Some(url.text) ELSE None

\* send_request without its call of verify_http_domains.
verify_http_domains_unchecked(allowed_http_domains, authority) == Ok(Nil)

verify_http_domains(allowed_http_domains, authority) ==
    LET parsed_uri == Url_parse(format_authority(authority))
        requested_domain == Url_domain(parsed_uri.url)
    IN IF ~parsed_uri.ok THEN Err("sdk", <<"invalid request authority", authority.text>>)
       ELSE IF requested_domain = None
       THEN Err("sdk", <<"request authority must be a valid dns name", authority.text>>)
       ELSE IF requested_domain.v \notin allowed_http_domains
       THEN Err("sdk", <<"missing http permissions", authority.text>>)
       ELSE Ok(Nil)

InitHttp ==
    /\ StreamIdle
    /\ store = <<>> /\ expiry = <<>> /\ clock = 0 /\ store_clock = 0 /\ pool = FALSE
    /\ permissions = {} /\ pending = <<>> /\ rl_prev = <<>> /\ bk_prev = <<>>
    /\ inst = [c \in Callers |-> [host |-> "PluginCtx", st |-> "alive", calls |-> 0]]
    /\ last_call = NoCall
    /\ context = <<>>
    /\ http_domains \in HttpDomainSets
    /\ http_sent = <<>>
    /\ StartIdle

\* send_request: the authority is verified, with `?` on the outer result,
\* and the request is handed to default_send_request.
PluginCtx_send_request(c, authority) ==
    /\ inst[c].host = "PluginCtx" /\ inst[c].st = "alive" /\ inst[c].calls < MaxCalls
    /\ LET verified == verify_http_domains(http_domains, authority)
       IN /\ http_sent' = IF verified.t = "ok" THEN Append(http_sent, authority) ELSE http_sent
          /\ inst' = [inst EXCEPT ![c].st = IF verified.t = "ok" THEN @ ELSE "trapped",
                                  ![c].calls = @ + 1]
          /\ last_call' = [caller |-> c, host |-> "PluginCtx", op |-> "send_request",
                           keys |-> <<>>, authority |-> authority,
                           delivery |-> IF verified.t = "ok" THEN "result" ELSE "trap",
                           value |-> verified, reached_store |-> FALSE]
    /\ UNCHANGED <<store, expiry, clock, store_clock, pool, permissions, pending, rl_prev,
                   bk_prev, context, http_domains, startVars, streamVars>>

NextHttp == \E c \in Callers, authority \in Authorities : PluginCtx_send_request(c, authority)

SpecHttp == InitHttp /\ [][NextHttp]_vars

\* The authority names a DNS domain that is one of the allowed http domains.
AllowedDomain(authority) == authority.host = "domain" /\ authority.text \in http_domains

\* C28: every outbound request handed to the sender has an authority that
\* names a DNS domain among the plugin's allowed http domains; a call with
\* any other authority (a domain not listed, a bare IP address, an empty host,
\* an authority that does not parse) fails and hands nothing to the sender.
C28_OnlyAllowedDomainsSent ==
    /\ [](\A n \in DOMAIN http_sent : AllowedDomain(http_sent[n]))
    /\ []((last_call.op = "send_request" /\ ~AllowedDomain(last_call.authority)) =>
             (last_call.value.t = "error" /\ last_call.delivery # "result"))
    /\ [][\A c \in Callers :
             (inst'[c].calls = inst[c].calls + 1 /\ ~AllowedDomain(last_call'.authority)) =>
                 http_sent' = http_sent]_vars

\* C28's case: with example.com allowed, one instance asked for other.org and
\* another for the bare address 127.0.0.1, which is listed as if it were a
\* domain; both calls failed and nothing was handed to the sender.
C28_Witness ==
    /\ http_domains = { "example.com", "127.0.0.1" }
    /\ inst[1].st = "trapped" /\ inst[2].st = "trapped"
    /\ last_call.op = "send_request"
    /\ last_call.authority = Authority("127.0.0.1", "ipv4")
    /\ last_call.value.t = "error"
    /\ http_sent = <<>>

(***************************************************************************)
(* BulwarkProcessor::new (crates/ext-filter/src/service.rs).               *)
(* SpecStartup: the processor is built from one configuration.             *)
(***************************************************************************)
MaxResources == 2

\* Route patterns, as their segments; a segment that begins with a colon is
\* a parameter.
ParamSegments == { ":id", ":name" }
RoutePatterns == { <<>>, <<"example">>, <<":id">>, <<":name">> }

\* Plugin paths; Plugin::from_file fails on the last.
PluginPaths == { "a.wasm", "b.wasm", "missing.wasm" }
PluginPathLists == { <<"a.wasm">>, <<"a.wasm", "b.wasm">>, <<"missing.wasm">> }

Resource(route, plugins) == [route |-> route, plugins |-> plugins]
Resources == { Resource(route, plugins) : route \in RoutePatterns, plugins \in PluginPathLists }

RECURSIVE ResourceLists(_)
ResourceLists(n) ==
    IF n = 0 THEN { <<>> }
    ELSE ResourceLists(n - 1) \cup
         { Append(rs, r) : rs \in { l \in ResourceLists(n - 1) : Len(l) = n - 1 }, r \in Resources }

Configs == { [resources |-> None] } \cup { [resources |-> Some(rs)] : rs \in ResourceLists(MaxResources) }

\* Plugin::from_file(path)
from_file(path) == IF path = "missing.wasm" THEN Err("PluginLoadError", path) ELSE Ok(path)

\* matchit: two patterns conflict when they are the same, or differ only in
\* the names of their parameters, so that they match the same paths.
Conflicts(p, q) ==
    /\ Len(p) = Len(q)
    /\ \A n \in DOMAIN p : p[n] = q[n] \/ (p[n] \in ParamSegments /\ q[n] \in ParamSegments)

\* Router::insert: Err(InsertError::Conflict) and no change on a conflict.
Router_insert(r, route, value) ==
    IF \E p \in DOMAIN r : Conflicts(p, route) THEN [result |-> Err("InsertError", route), router |-> r]
    ELSE [result |-> Ok(Nil),
          router |-> [p \in DOMAIN r \cup {route} |-> IF p = route THEN value ELSE r[p]]]

\* The loop over the resources: each plugin is loaded, with `?`; the route
\* is inserted and the result of insert is not looked at.
RECURSIVE new_resources(_, _)
new_resources(r, resources) ==
    IF resources = <<>> THEN [t |-> "Ok", router |-> r]
    ELSE LET resource == Head(resources)
         IN IF \E n \in DOMAIN resource.plugins : from_file(resource.plugins[n]).t # "ok"
            THEN [t |-> "Err(PluginLoadError)", router |-> r]
            ELSE new_resources(Router_insert(r, resource.route, resource.plugins).router,
                               Tail(resources))

InitStartup ==
    /\ StreamIdle /\ StateIdle
    /\ context = <<>> /\ http_domains = {} /\ http_sent = <<>>
    /\ config \in Configs
    /\ router = <<>>
    /\ new_result = "none"

BulwarkProcessor_new ==
    /\ new_result = "none"
    /\ LET built == IF config.resources = None THEN [t |-> "panic", router |-> <<>>]
                    ELSE new_resources(<<>>, config.resources.v)
       IN /\ new_result' = built.t
          /\ router' = IF built.t = "Ok" THEN built.router ELSE <<>>
    /\ UNCHANGED <<config, context, http_domains, http_sent, streamVars, stateVars>>

NextStartup == BulwarkProcessor_new

SpecStartup == InitStartup /\ [][NextStartup]_vars

\* Two resources of the configuration have conflicting route patterns.
ConflictingRoutes ==
    /\ config.resources # None
    /\ \E m, n \in DOMAIN config.resources.v :
          m < n /\ Conflicts(config.resources.v[m].route, config.resources.v[n].route)

\* C31: BulwarkProcessor::new on a configuration in which two resources have
\* conflicting route patterns returns an error; it does not return a
\* processor, whose router would lack one of the routes.
C31_ConflictingRoutesFailStartup ==
    (new_result # "none" /\ ConflictingRoutes) =>
        (new_result = "Err(PluginLoadError)" /\ router = <<>>)

(***************************************************************************)
(* SpecArgs: one instance of either host increments rate limits and        *)
(* breakers with arguments of either sign, and checks breakers.            *)
(***************************************************************************)
ArgDeltas == { -1, 1 }
ArgWindows == { -1, 1 }

NextArgs ==
    \/ Tick
    \/ StoreTick
    \/ \E c \in Callers, key \in RateKeys, delta \in ArgDeltas, window \in ArgWindows :
          PluginCtx_incr_rate_limit(c, key, delta, window)
    \/ \E c \in Callers : invoke_increment_rate_limit(c)
    \/ \E c \in Callers, key \in RateKeys, success_delta \in ArgDeltas,
          failure_delta \in ArgDeltas, window \in ArgWindows :
          PluginCtx_incr_breaker(c, key, success_delta, failure_delta, window)
    \/ \E c \in Callers : invoke_increment_breaker(c)
    \/ \E c \in Callers, key \in RateKeys, delta \in ArgDeltas, window \in ArgWindows :
          RequestContext_increment_rate_limit(c, key, delta, window)
    \/ \E c \in Callers : ScriptRegistry_invoke_increment_rate_limit(c)
    \/ \E c \in Callers, key \in RateKeys, success_delta \in ArgDeltas,
          failure_delta \in ArgDeltas, window \in ArgWindows :
          RequestContext_increment_breaker(c, key, success_delta, failure_delta, window)
    \/ \E c \in Callers : ScriptRegistry_invoke_increment_breaker(c)
    \/ \E c \in Callers, key \in RateKeys : PluginCtx_check_breaker(c, key)
    \/ \E c \in Callers : invoke_check_breaker(c)
    \/ \E c \in Callers, key \in RateKeys : RequestContext_check_breaker(c, key)
    \/ \E c \in Callers : ScriptRegistry_invoke_check_breaker(c)

SpecArgs == InitLimit /\ [][NextArgs]_vars

\* The arguments of an increment, one of which is negative.
NegativeArgument(call) ==
    \/ call.op = "incr_rate_limit" /\ (call.delta < 0 \/ call.window < 0)
    \/ call.op = "incr_breaker"
          /\ (call.success_delta < 0 \/ call.failure_delta < 0 \/ call.window < 0)

\* C32: an incr_rate_limit or incr_breaker call one of whose arguments is
\* negative returns InvalidArgument as the call's result and changes no key
\* of the store: the call ends where it began, so that no such call is ever
\* in flight towards the store.
C32_NegativeArgumentRejected ==
    /\ [](\A c \in Callers : ~NegativeArgument(pending[c]))
    /\ [][\A c \in Callers :
             (/\ pending[c].op = "none" /\ inst'[c].calls = inst[c].calls + 1
              /\ last_call'.op \in {"incr_rate_limit", "incr_breaker"}
              /\ NegativeArgument(last_call'.args)) =>
                 /\ last_call'.delivery = "result"
                 /\ last_call'.value.t = "error"
                 /\ last_call'.value.kind = "InvalidArgument"
                 /\ store' = store /\ expiry' = expiry]_vars

(***************************************************************************)
(* SpecCheck: two instances of one host increment and check the rate limit *)
(* and the breaker of one key.                                             *)
(***************************************************************************)
MaxCheckCalls == 3

\* The increments made before the checks: one success or one failure.
CheckDeltas == { <<1, 0>>, <<0, 1>> }

\* The calls begun so far, by both callers, are fewer than the bound.
CheckBudget ==
    Cardinality({ c \in Callers : pending[c].op # "none" })
        + inst[1].calls + inst[2].calls < MaxCheckCalls

NextCheck ==
    \/ Tick
    \/ StoreTick
    \/ \E c \in Callers, key \in RateKeys :
          CheckBudget /\ PluginCtx_incr_rate_limit(c, key, 1, 1)
    \/ \E c \in Callers : invoke_increment_rate_limit(c)
    \/ \E c \in Callers, key \in RateKeys : CheckBudget /\ PluginCtx_check_rate_limit(c, key)
    \/ \E c \in Callers : invoke_check_rate_limit(c)
    \/ \E c \in Callers, key \in RateKeys, deltas \in CheckDeltas :
          CheckBudget /\ PluginCtx_incr_breaker(c, key, deltas[1], deltas[2], 1)
    \/ \E c \in Callers : invoke_increment_breaker(c)
    \/ \E c \in Callers, key \in RateKeys : CheckBudget /\ PluginCtx_check_breaker(c, key)
    \/ \E c \in Callers : invoke_check_breaker(c)
    \/ \E c \in Callers, key \in RateKeys :
          CheckBudget /\ RequestContext_increment_rate_limit(c, key, 1, 1)
    \/ \E c \in Callers : ScriptRegistry_invoke_increment_rate_limit(c)
    \/ \E c \in Callers, key \in RateKeys : CheckBudget /\ RequestContext_check_rate_limit(c, key)
    \/ \E c \in Callers : ScriptRegistry_invoke_check_rate_limit(c)
    \/ \E c \in Callers, key \in RateKeys, deltas \in CheckDeltas :
          CheckBudget /\ RequestContext_increment_breaker(c, key, deltas[1], deltas[2], 1)
    \/ \E c \in Callers : ScriptRegistry_invoke_increment_breaker(c)
    \/ \E c \in Callers, key \in RateKeys : CheckBudget /\ RequestContext_check_breaker(c, key)
    \/ \E c \in Callers : ScriptRegistry_invoke_check_breaker(c)

SpecCheck == InitBreaker /\ [][NextCheck]_vars

\* The check in flight of caller c finds live data: a recorded expiration
\* that its timestamp has not passed, or a recorded generation.
FindsLiveData(c) ==
    LET p == pending[c]
    IN \/ /\ p.op = "check_rate_limit"
          /\ Lookup(store, WrittenCounterKey(c, p.key)).t = "int"
          /\ Lookup(store, WrittenExpirationKey(c, p.key)).t = "int"
          /\ p.timestamp <= Lookup(store, WrittenExpirationKey(c, p.key)).n
       \/ /\ p.op = "check_breaker"
          /\ RecordedGeneration(c, p.key).t = "int"

\* C35: a check_rate_limit stamped now <= the recorded expiration and a
\* check_breaker on a key with a recorded generation change no key of the
\* store; and when the call that ended last was a check of the same kind on
\* the same key that the store answered (so that no increment ended in
\* between), the check ends as that one did, with the same result.
C35_ChecksOfLiveDataReadOnly ==
    [][\A c \in Callers :
          LET p == pending[c]
          IN (/\ Completes(c, "check_rate_limit") \/ Completes(c, "check_breaker")
              /\ FindsLiveData(c)
              /\ ~TransportFailure(last_call')) =>
                /\ store' = store /\ expiry' = expiry
                /\ (/\ last_call.op = p.op /\ last_call.keys = <<p.key>>
                    /\ last_call.reached_store /\ ~TransportFailure(last_call)) =>
                      /\ last_call'.delivery = last_call.delivery
                      /\ last_call'.value = last_call.value]_vars

\* C35's case: a check_rate_limit returned the count recorded by the
\* increment before it, and the next check_rate_limit on the key is in
\* flight, stamped within the recorded expiration.
C35_Witness ==
    /\ last_call.op = "check_rate_limit" /\ last_call.delivery = "result"
    /\ last_call.reached_store
    /\ last_call.value.t = "ok" /\ last_call.value.v = Some(RateV(1, 1))
    /\ \E c \in Callers :
          /\ pending[c].op = "check_rate_limit" /\ pending[c].key = last_call.keys[1]
          /\ FindsLiveData(c)

(***************************************************************************)
(* Further properties of the breaker calls.                                *)
(***************************************************************************)
\* C36: an incr_breaker with success_delta > 0 and failure_delta > 0 that the
\* store answers applies the success side only, failure_delta having no
\* effect. The breaker it returns has the recorded successes and
\* consecutive_successes plus success_delta, consecutive_failures 0 and the
\* recorded failures; and so has the breaker recorded after the call, unless
\* the expiration the call set was already past and the store removed it.
C36_BothDeltasApplySuccessOnly ==
    [][\A c \in Callers :
          LET p == pending[c]
              returned == last_call'.value.v
          IN (BreakerIncremented(c) /\ p.success_delta > 0 /\ p.failure_delta > 0) =>
                /\ last_call'.delivery = "result" =>
                      /\ last_call'.value.t = "ok"
                      /\ returned.successes = RecordedCount(c, p.key, 2) + p.success_delta
                      /\ returned.consecutive_successes
                            = RecordedCount(c, p.key, 4) + p.success_delta
                      /\ returned.consecutive_failures = 0
                      /\ returned.failures = RecordedCount(c, p.key, 3)
                /\ RecordedCountIn(store', c, p.key, 1) > 0 =>
                      /\ RecordedCountIn(store', c, p.key, 2)
                            = RecordedCount(c, p.key, 2) + p.success_delta
                      /\ RecordedCountIn(store', c, p.key, 4)
                            = RecordedCount(c, p.key, 4) + p.success_delta
                      /\ RecordedCountIn(store', c, p.key, 5) = 0
                      /\ RecordedCountIn(store', c, p.key, 3) = RecordedCount(c, p.key, 3)]_vars

\* C36's case: after a failure was recorded on the key, an incr_breaker with
\* both deltas 1 returned one success, one consecutive success, the one
\* failure recorded before and no consecutive failure.
C36_Witness ==
    /\ last_call.op = "incr_breaker" /\ last_call.delivery = "result"
    /\ last_call.args.success_delta = 1 /\ last_call.args.failure_delta = 1
    /\ last_call.value.t = "ok"
    /\ last_call.value.v.successes = 1 /\ last_call.value.v.consecutive_successes = 1
    /\ last_call.value.v.failures = 1 /\ last_call.value.v.consecutive_failures = 0

\* The counts recorded under the breaker keys `keys` (generation, successes,
\* failures, consecutive successes, consecutive failures), nothing recorded
\* counting as 0: at most one of the consecutive counts is not zero, neither
\* exceeds the count of its side, and none is negative.
CountsConsistent(keys) ==
    LET count(n) == or_0(tonumber(Lookup(store, keys[n]))).n
    IN /\ count(4) = 0 \/ count(5) = 0
       /\ count(4) <= count(2)
       /\ count(5) <= count(3)
       /\ \A n \in 2 .. 5 : count(n) >= 0

\* C37: after any sequence of incr_breaker and check_breaker calls on a key,
\* the counts recorded for it are consistent: at most one of
\* consecutive_successes and consecutive_failures is not zero,
\* consecutive_successes <= successes, consecutive_failures <= failures, and
\* all four are >= 0.
C37_BreakerCountsConsistent ==
    \A key \in RateKeys :
        CountsConsistent(breaker_keys(key)) /\ CountsConsistent(ScriptRegistry_breaker_keys(key))


(***************************************************************************)
(* Further properties of the rate-limit calls.                             *)
(***************************************************************************)
\* C38: while the expiration of a key stays recorded in the store, no step
\* lowers it, and an incr_rate_limit call (its window is not negative once
\* its script runs) returns an expiration that is at least the one recorded
\* before its script ran, whatever the order of the callers' timestamps.
C38_ExpirationNeverDecreases ==
    [][\A key \in RateKeys :
          LET pre == Lookup(store, expiration_key(key))
              post == Lookup(store', expiration_key(key))
          IN /\ (pre.t = "int" /\ post.t = "int") => post.n >= pre.n
             /\ \A c \in Callers :
                   (/\ ScriptReturns(c) /\ pending[c].key = key
                    /\ pending[c].window >= 0
                    /\ pre.t = "int" /\ last_call'.value.t = "ok") =>
                       last_call'.value.v.expiration >= pre.n]_vars

\* C38's case: a call that read its clock at 0 ran its script after a call
\* stamped later had recorded the expiration 2; it returned that expiration
\* and the store still records it.
C38_Witness ==
    /\ Called /\ last_call.op = "incr_rate_limit" /\ last_call.delivery = "result"
    /\ last_call.value.t = "ok"
    /\ last_call.args.timestamp = 0 /\ last_call.args.window >= 0
    /\ last_call.value.v.expiration = 2
    /\ \E key \in RateKeys :
          /\ last_call.keys = <<key>>
          /\ Lookup(store, expiration_key(key)) = IntV(2)


(***************************************************************************)
(* Further properties of the generic state calls.                          *)
(***************************************************************************)
\* The first key of a list that begins with no declared state prefix.
FirstUndeclared(keys) ==
    keys[CHOOSE n \in DOMAIN keys :
            /\ ~Declared(keys[n])
            /\ \A m \in DOMAIN keys : ~Declared(keys[m]) => n <= m]

\* C39: a del whose list holds a key that begins with no declared state
\* prefix ends with Permission for the first such key, sends no command, and
\* leaves every key of the store, the permitted ones of the list included,
\* as it was.
C39_DelAllOrNothing ==
    [][\A c \in Callers :
          (/\ inst'[c].calls = inst[c].calls + 1
           /\ last_call'.op = "del"
           /\ \E n \in DOMAIN last_call'.keys : ~Declared(last_call'.keys[n])) =>
              /\ last_call'.value = Permission(FirstUndeclared(last_call'.keys))
              /\ ~last_call'.reached_store
              /\ store' = store /\ expiry' = expiry]_vars

\* C39's case: a del of a permitted key that the store holds, followed in
\* the list by two keys that are not permitted, ended with Permission for
\* the first of the two, and the store still holds the permitted key.
C39_Witness ==
    /\ Called /\ last_call.op = "del"
    /\ last_call.keys = << <<"foo:", "x">>, <<"bar:", "x">>, <<"rl:", "foo:", "x">> >>
    /\ permissions = { <<"foo:">> }
    /\ last_call.value = Permission(<<"bar:", "x">>)
    /\ Lookup(store, <<"foo:", "x">>) # Nil


\* C40: with no store configured, a remote-state call on permitted keys with
\* valid arguments returns Remote("no remote state configured") as the
\* call's error result, and the instance that made it stays alive.
C40_NoStoreIsErrorResult ==
    (/\ Called /\ ~pool
     /\ \A n \in DOMAIN last_call.keys : Declared(last_call.keys[n])
     /\ last_call.args = <<>> \/ ~NegativeArgument(last_call.args)) =>
        /\ last_call.delivery = "result"
        /\ last_call.value = Remote("no remote state configured")
        /\ inst[last_call.caller].st = "alive"

====
